---- MODULE Spec2Model ----
(***************************************************************************)
(* Model of the investment dashboard's normalization layer, table loader,  *)
(* daily-report compiler, price fetch and write-back, and of the main      *)
(* script's data-management buttons (src/data_manager.py and src/app.py).  *)
(*                                                                         *)
(* Text is modelled as a sequence of one-character strings.  Characters    *)
(* outside ASCII are written by an ASCII stand-in:                         *)
(*   "W" = the ten-thousand unit (wan),  "Y" = the yen sign.               *)
(* A float is modelled as an exact decimal: a sign, the digits of the      *)
(* integer part (no leading zeros) and the digits of the fraction (no      *)
(* trailing zeros); inf and nan are separate kinds.                        *)
(***************************************************************************)
EXTENDS Integers, Sequences, FiniteSets, TLC

VARIABLES
    value,      \* the argument of the normalization call (a RawCell)
    call,       \* which normalization function was applied ("none" before)
    result,     \* what the call returned
    data,       \* load_data: the worksheet's values, header row first
    attempt,    \* load_data: the retry loop's counter
    loaded,     \* load_data: whether and how the call ended, and the DataFrame returned
    impl,       \* generate_daily_report: which file's copy runs
    tables,     \* generate_daily_report: df_A, df_C, df_D, df_E, df_F, df_H
    live_prices_dict,   \* generate_daily_report: ticker -> live price
    pc,         \* generate_daily_report: the section about to run
    lines,      \* generate_daily_report: the list lines
    locals,     \* generate_daily_report: latest, close_val, last_3, ... as last set
    tickers,    \* fetch_current_prices: its argument
    download,   \* fetch_current_prices: what yf.download answers
    fetched,    \* fetch_current_prices: whether the call ended, and the dict returned (updates)
    df_A,       \* write_prices_to_sheet: the Holdings table passed in
    gsheet,     \* write_prices_to_sheet: the connection, the worksheet and its column E
    written,    \* write_prices_to_sheet: whether and how the call ended
    session_state,  \* app.py: st.session_state['live_prices']
    cache,      \* app.py: the st.cache_data stores of load_data and fetch_current_prices
    script      \* app.py: the statement of the main script about to run

normVars   == <<value, call, result>>
loadVars   == <<data, attempt, loaded>>
reportVars == <<impl, tables, live_prices_dict, pc, lines, locals>>
pricesVars == <<tickers, download, fetched, df_A, gsheet, written>>
appVars    == <<session_state, cache, script>>
vars       == <<normVars, loadVars, reportVars, pricesVars, appVars>>

\* what the actions of one part leave alone of the other parts
exceptNorm   == <<loadVars, reportVars, pricesVars, appVars>>
exceptLoad   == <<normVars, reportVars, pricesVars, appVars>>
exceptReport == <<normVars, loadVars, pricesVars, appVars>>
exceptPrices == <<normVars, loadVars, reportVars>>

(***************************************************************************)
(* Bounds of the model.                                                    *)
(***************************************************************************)
MaxLen == 3     \* longest RawCell drawn from the whole alphabet, in characters
MaxCols == 3    \* most columns of a worksheet's header row
MaxHoldings == 1        \* most rows of the Holdings table
MaxOverviewRows == 2    \* most rows of the Overview table
MaxJudgmentRows == 3    \* most rows of the DailyJudgment table
MaxWindowRows == 4      \* most rows of the DailyNAV, CashFlow and RealizedPnL tables

(***************************************************************************)
(* Sequence helpers.                                                       *)
(***************************************************************************)
SeqsUpTo(S, n) == UNION { [1..k -> S] : k \in 0..n }

RECURSIVE Flatten(_)
Flatten(ss) == IF ss = <<>> THEN <<>> ELSE Head(ss) \o Flatten(Tail(ss))

IndexOf(s, c) ==
    IF \E i \in 1..Len(s) : s[i] = c
    THEN CHOOSE i \in 1..Len(s) : s[i] = c /\ \A j \in 1..(i-1) : s[j] # c
    ELSE 0

(***************************************************************************)
(* str.strip() and str.replace(old, new) on character sequences.           *)
(***************************************************************************)
Whitespace == {" "}

RECURSIVE LStrip(_)
LStrip(s) == IF s # <<>> /\ Head(s) \in Whitespace THEN LStrip(Tail(s)) ELSE s

RECURSIVE RStrip(_)
RStrip(s) ==
    IF s # <<>> /\ s[Len(s)] \in Whitespace
    THEN RStrip(SubSeq(s, 1, Len(s) - 1))
    ELSE s

strip(s) == RStrip(LStrip(s))

\* s.replace(c, new) for a single character c
replace(s, c, new) ==
    Flatten([i \in 1..Len(s) |-> IF s[i] = c THEN new ELSE <<s[i]>>])

(***************************************************************************)
(* Decimal values.                                                         *)
(***************************************************************************)
DigitChars == <<"0", "1", "2", "3", "4", "5", "6", "7", "8", "9">>
IsDigit(c) == \E i \in 1..10 : DigitChars[i] = c
DigVal(c)  == (CHOOSE i \in 1..10 : DigitChars[i] = c) - 1
DigChar(d) == DigitChars[d + 1]

RECURSIVE DropLeadingZeros(_)
DropLeadingZeros(ds) ==
    IF ds # <<>> /\ Head(ds) = 0 THEN DropLeadingZeros(Tail(ds)) ELSE ds

RECURSIVE DropTrailingZeros(_)
DropTrailingZeros(ds) ==
    IF ds # <<>> /\ ds[Len(ds)] = 0
    THEN DropTrailingZeros(SubSeq(ds, 1, Len(ds) - 1))
    ELSE ds

Fin(neg, ip, fp) ==
    [k |-> "fin", neg |-> neg, ip |-> DropLeadingZeros(ip), fp |-> DropTrailingZeros(fp)]
Inf(neg) == [k |-> "inf", neg |-> neg, ip |-> <<>>, fp |-> <<>>]
NaN      == [k |-> "nan", neg |-> FALSE, ip |-> <<>>, fp |-> <<>>]
\* the ValueError float() raises, as a value of the same shape
ValueError == [k |-> "err", neg |-> FALSE, ip |-> <<>>, fp |-> <<>>]
Zero     == Fin(FALSE, <<>>, <<>>)

IsZero(v) == v.k = "fin" /\ v.ip = <<>> /\ v.fp = <<>>     \* val == 0 (also -0.0)
IsPos(v)  == v.k # "nan" /\ ~v.neg /\ ~IsZero(v)            \* val > 0

\* abs(val) <= n for a one-digit natural n >= 1
AbsLeq(v, n) ==
    /\ v.k = "fin"
    /\ \/ v.ip = <<>>
       \/ Len(v.ip) = 1 /\ v.ip[1] < n
       \/ Len(v.ip) = 1 /\ v.ip[1] = n /\ v.fp = <<>>

\* val <= n (signed) for a one-digit natural n >= 1
Leq(v, n) ==
    \/ v.k = "inf" /\ v.neg
    \/ v.k = "fin" /\ (v.neg \/ AbsLeq(v, n))

RECURSIVE SeqToNat(_)
SeqToNat(ds) ==
    IF ds = <<>> THEN 0 ELSE 10 * SeqToNat(SubSeq(ds, 1, Len(ds) - 1)) + ds[Len(ds)]

RECURSIVE NatToSeq(_)
NatToSeq(n) == IF n = 0 THEN <<>> ELSE NatToSeq(n \div 10) \o <<n % 10>>

\* a * b for floats; the finite case is exact for the short decimals the
\* Holdings cells hold
Mul(a, b) ==
    IF a.k = "nan" \/ b.k = "nan" THEN NaN
    ELSE IF a.k = "inf" \/ b.k = "inf"
         THEN IF IsZero(a) \/ IsZero(b) THEN NaN ELSE Inf(a.neg # b.neg)
    ELSE LET p  == NatToSeq(SeqToNat(a.ip \o a.fp) * SeqToNat(b.ip \o b.fp))
             sc == Len(a.fp) + Len(b.fp)
             pp == IF Len(p) < sc THEN [i \in 1..(sc - Len(p)) |-> 0] \o p ELSE p
         IN  Fin(a.neg # b.neg, SubSeq(pp, 1, Len(pp) - sc),
                 SubSeq(pp, Len(pp) - sc + 1, Len(pp)))

\* val * 100: the decimal point moves two places to the right
Times100(v) ==
    IF v.k # "fin" THEN v
    ELSE LET f == v.fp \o <<0, 0>>
         IN  Fin(v.neg, v.ip \o SubSeq(f, 1, 2), SubSeq(f, 3, Len(f)))

(***************************************************************************)
(* float(s): Python's float constructor on a string; ValueError is what it *)
(* raises.  Covered grammar: optional surrounding blanks,    *)
(* optional sign, then "inf", "infinity", "nan" or digits with an optional *)
(* point (at least one digit).  Exponents and digit-group underscores are  *)
(* outside the alphabet of the cells this model draws.                     *)
(***************************************************************************)
AllDigits(s) == \A i \in 1..Len(s) : IsDigit(s[i])
ToDigits(s)  == [i \in 1..Len(s) |-> DigVal(s[i])]

ParseUnsigned(neg, u) ==
    IF u = <<"i", "n", "f">> \/ u = <<"i", "n", "f", "i", "n", "i", "t", "y">>
        THEN Inf(neg)
    ELSE IF u = <<"n", "a", "n">> THEN NaN
    ELSE LET p  == IndexOf(u, ".")
             ia == IF p = 0 THEN u ELSE SubSeq(u, 1, p - 1)
             fa == IF p = 0 THEN <<>> ELSE SubSeq(u, p + 1, Len(u))
         IN  IF AllDigits(ia) /\ AllDigits(fa) /\ Len(ia) + Len(fa) >= 1
             THEN Fin(neg, ToDigits(ia), ToDigits(fa))
             ELSE ValueError

float(s) ==
    LET t == strip(s)
    IN  IF t = <<>> THEN ValueError
        ELSE IF Head(t) = "-" THEN ParseUnsigned(TRUE, Tail(t))
        ELSE IF Head(t) = "+" THEN ParseUnsigned(FALSE, Tail(t))
        ELSE ParseUnsigned(FALSE, t)

(***************************************************************************)
(* safe_float(value) for a string value.                                   *)
(***************************************************************************)
\* the cleaning chain leaving the percent sign in
Clean_keeps_percent(v) ==
    LET s1 == strip(v)
        s2 == replace(replace(replace(s1, ",", <<>>), "$", <<>>), "Y", <<>>)
        s3 == replace(replace(replace(s2, "W", <<"0", "0", "0", "0">>), "(", <<"-">>), ")", <<>>)
    IN  s3

\* lines 19-21: the cleaning chain before the parse
Clean(v) ==
    LET s1 == strip(v)
        s2 == replace(replace(replace(replace(s1, ",", <<>>), "$", <<>>), "Y", <<>>), "%", <<>>)
        s3 == replace(replace(replace(s2, "W", <<"0", "0", "0", "0">>), "(", <<"-">>), ")", <<>>)
    IN  s3

\* safe_float without its except clause: the parse error escapes
safe_float_call_no_except(v) ==
    IF v = <<>> THEN [raised |-> FALSE, val |-> Zero]
    ELSE LET f == float(Clean(v))
         IN  IF f.k = "err" THEN [raised |-> TRUE, val |-> f]
                            ELSE [raised |-> FALSE, val |-> f]

\* lines 16-23: the outcome of the call (raised or returned) and the value
\* returned; the except clause turns the parse error into 0.0
safe_float_call(v) ==
    IF v = <<>> THEN [raised |-> FALSE, val |-> Zero]
    ELSE LET f == float(Clean(v))
         IN  IF f.k = "err" THEN [raised |-> FALSE, val |-> Zero]
                            ELSE [raised |-> FALSE, val |-> f]

safe_float(v) == safe_float_call(v).val

\* safe_float of a value that already is a float: pd.isna(nan) gives 0.0,
\* every other float survives str() and float() unchanged
safe_float_num(v) == IF v.k = "nan" THEN Zero ELSE v

(***************************************************************************)
(* Number formatting: f"{val:,.2f}", f"{val:,.0f}", f"{val:.2f}".          *)
(* A decimal tie at two places is decided by the binary expansion of the   *)
(* double, which the decimal model does not carry: tieUp says which way it *)
(* falls and the actions draw it.  A tie at zero places (x.5) is exact in  *)
(* binary and is rounded half to even.                                     *)
(***************************************************************************)
RECURSIVE Inc(_)
Inc(ds) ==
    IF ds = <<>> THEN <<1>>
    ELSE IF ds[Len(ds)] < 9
         THEN SubSeq(ds, 1, Len(ds) - 1) \o <<ds[Len(ds)] + 1>>
         ELSE Inc(SubSeq(ds, 1, Len(ds) - 1)) \o <<0>>

RoundUp(v, d, tieUp) ==
    LET rest == SubSeq(v.fp, d + 1, Len(v.fp))
        kept == v.ip \o SubSeq(v.fp \o <<0, 0>>, 1, d)
        last == IF kept = <<>> THEN 0 ELSE kept[Len(kept)]
    IN  IF rest = <<>> THEN FALSE
        ELSE IF rest[1] # 5 THEN rest[1] > 5
        ELSE IF Len(rest) > 1 THEN TRUE
        ELSE IF d = 0 THEN last % 2 = 1
        ELSE tieUp

\* digits of the integer part with a comma before every group of three
Grouped(cs) ==
    Flatten([i \in 1..Len(cs) |->
        IF i > 1 /\ (Len(cs) - i + 1) % 3 = 0 THEN <<",", cs[i]>> ELSE <<cs[i]>>])

Format(v, d, comma, tieUp) ==
    IF v.k = "nan" THEN <<"n", "a", "n">>
    ELSE IF v.k = "inf"
        THEN (IF v.neg THEN <<"-">> ELSE <<>>) \o <<"i", "n", "f">>
    ELSE LET kept == v.ip \o SubSeq(v.fp \o <<0, 0>>, 1, d)
             all  == IF RoundUp(v, d, tieUp) THEN Inc(kept) ELSE kept
             pad  == IF Len(all) <= d
                     THEN [i \in 1..(d + 1 - Len(all)) |-> 0] \o all
                     ELSE all
             ic   == [i \in 1..(Len(pad) - d) |-> DigChar(pad[i])]
             fc   == [i \in 1..d |-> DigChar(pad[Len(pad) - d + i])]
         IN  (IF v.neg THEN <<"-">> ELSE <<>>)
             \o (IF comma THEN Grouped(ic) ELSE ic)
             \o (IF d > 0 THEN <<".">> \o fc ELSE <<>>)

\* data_manager.py 25-27
fmt_money_val(val, tieUp) ==
    IF ~IsZero(val) THEN Format(val, 2, TRUE, tieUp) ELSE <<"0", ".", "0", "0">>
fmt_money(v, tieUp) == fmt_money_val(safe_float(v), tieUp)

\* data_manager.py 29-31
fmt_int_val(val) ==
    IF ~IsZero(val) THEN Format(val, 0, TRUE, FALSE) ELSE <<"0">>
fmt_int(v) == fmt_int_val(safe_float(v))

\* fmt_pct with the boundary 5.0 on the percentage side
fmt_pct_val_exclusive(val, tieUp) ==
    IF IsZero(val) THEN <<"0", ".", "0", "0", "%">>
    ELSE IF AbsLeq(val, 5) /\ val.ip # <<5>>
         THEN Format(Times100(val), 2, FALSE, tieUp) \o <<"%">>
         ELSE Format(val, 2, FALSE, tieUp) \o <<"%">>

\* data_manager.py 37-43
fmt_pct_val(val, tieUp) ==
    IF IsZero(val) THEN <<"0", ".", "0", "0", "%">>
    ELSE IF AbsLeq(val, 5)
         THEN Format(Times100(val), 2, FALSE, tieUp) \o <<"%">>
         ELSE Format(val, 2, FALSE, tieUp) \o <<"%">>
fmt_pct(v, tieUp) == fmt_pct_val(safe_float(v), tieUp)

(***************************************************************************)
(* Specification of the normalization layer: one call of one function on   *)
(* one RawCell.                                                            *)
(***************************************************************************)
\* the characters RawCells are drawn from
Chars == {"0", "1", "5", ".", ",", "%", "$", "(", ")", "-", " ", "W", "a"}

\* the cells the specification's examples name, a decimal tie, longer cells
\* in parentheses, and the texts float() reads as infinity and not-a-number
ExampleCells ==
    { <<"5", ".", "0", "1">>, <<"1", ",", "2", "3", "4", ".", "5", "0">>,
      <<"(", "5", "0", "0", ")">>, <<"1", ".", "0", "5">>, <<"0", ".", "1", "5">>,
      <<"4", "2", ".", "0">>, <<"(", "5", "0", ",", "0", "0", "0", ")">>,
      <<"1", ",", "0", "0", "0", ",", "0", "0", "0">>, <<"5", ".", "0", "0", "5">>,
      <<"-", "5", ".", "0", "1">>, <<"-", "0", ".", "0", "0", "0", "1">>,
      <<"(", " ", "5", ")">>, <<"(", "-", "5", ")">>, <<"(", "1", "W", ")">>,
      <<"i", "n", "f">>, <<"-", "i", "n", "f">>, <<"n", "a", "n">> }

RawCells == SeqsUpTo(Chars, MaxLen) \cup ExampleCells

NoResult == [raised |-> FALSE, val |-> Zero, out |-> <<>>]

\* the parts of the state a specification does not use stay as they are here
NormIdle == value = <<>> /\ call = "idle" /\ result = NoResult
LoadIdle ==
    /\ data = <<>> /\ attempt = 0
    /\ loaded = [done |-> TRUE, df |-> <<>>, raised |-> FALSE, how |-> "idle"]

ReportIdle ==
    /\ impl = "none" /\ tables = <<>> /\ live_prices_dict = <<>>
    /\ pc = "idle" /\ lines = <<>> /\ locals = <<>>
PricesIdle ==
    /\ tickers = <<>> /\ download = <<>> /\ fetched = <<>>
    /\ df_A = <<>> /\ gsheet = <<>> /\ written = <<>>
AppIdle ==
    /\ session_state = <<>> /\ cache = <<>> /\ script = "idle"

InitNorm ==
    /\ value \in RawCells
    /\ call = "none"
    /\ result = NoResult
    /\ LoadIdle
    /\ ReportIdle
    /\ PricesIdle
    /\ AppIdle

SafeFloat ==
    /\ call = "none"
    /\ call' = "safe_float"
    /\ result' = [raised |-> safe_float_call(value).raised,
                  val |-> safe_float_call(value).val, out |-> <<>>]
    /\ UNCHANGED <<value, exceptNorm>>

FmtMoney ==
    /\ call = "none"
    /\ call' = "fmt_money"
    /\ \E tieUp \in BOOLEAN :
         result' = [raised |-> FALSE, val |-> safe_float(value),
                    out |-> fmt_money(value, tieUp)]
    /\ UNCHANGED <<value, exceptNorm>>

FmtInt ==
    /\ call = "none"
    /\ call' = "fmt_int"
    /\ result' = [raised |-> FALSE, val |-> safe_float(value), out |-> fmt_int(value)]
    /\ UNCHANGED <<value, exceptNorm>>

FmtPct ==
    /\ call = "none"
    /\ call' = "fmt_pct"
    /\ \E tieUp \in BOOLEAN :
         result' = [raised |-> FALSE, val |-> safe_float(value),
                    out |-> fmt_pct(value, tieUp)]
    /\ UNCHANGED <<value, exceptNorm>>

\* fmt_pct applied to what fmt_pct returned: a string that was formatted
\* already is formatted again (and read by safe_float, app.py 783)
FmtPctAgain ==
    /\ call = "fmt_pct"
    /\ call' = "fmt_pct_again"
    /\ value' = result.out
    /\ \E tieUp \in BOOLEAN :
         result' = [raised |-> FALSE, val |-> safe_float(result.out),
                    out |-> fmt_pct(result.out, tieUp)]
    /\ UNCHANGED exceptNorm

NextNorm == SafeFloat \/ FmtMoney \/ FmtInt \/ FmtPct \/ FmtPctAgain

SpecNorm == InitNorm /\ [][NextNorm]_vars

(***************************************************************************)
(* load_data(sheet_name), data_manager.py 74-107 (app.py 357-389).         *)
(* A column name is a sequence of tokens; "Ticker" and "Note" stand for    *)
(* two header texts of the sheet, "_" and the digits are the characters    *)
(* the renaming appends.  A DataFrame is its column names and its rows.    *)
(***************************************************************************)
max_retries == 3

EmptyDataFrame == [columns |-> <<>>, rows |-> <<>>]

RECURSIVE NatStr(_)
NatStr(n) == IF n < 10 THEN <<DigChar(n)>> ELSE NatStr(n \div 10) \o <<DigChar(n % 10)>>

\* the renaming loop numbering the first repetition 2
RECURSIVE RenameFromTwo(_, _, _)
RenameFromTwo(columns, i, count) ==
    IF i > Len(columns) THEN <<>>
    ELSE LET c == columns[i]
             n == IF c = <<>> THEN <<"Unnamed">> ELSE c
         IN  IF n \in DOMAIN count
             THEN <<n \o <<"_">> \o NatStr(count[n] + 1)>>
                  \o RenameFromTwo(columns, i + 1, [count EXCEPT ![n] = @ + 1])
             ELSE <<n>> \o RenameFromTwo(columns, i + 1, (n :> 1) @@ count)

\* lines 96-101: the renaming loop over df.columns, from column i on, with
\* the dict count as built so far
RECURSIVE RenameFrom(_, _, _)
RenameFrom(columns, i, count) ==
    IF i > Len(columns) THEN <<>>
    ELSE LET c == columns[i]
             n == IF c = <<>> THEN <<"Unnamed">> ELSE c
         IN  IF n \in DOMAIN count
             THEN <<n \o <<"_">> \o NatStr(count[n] + 1)>>
                  \o RenameFrom(columns, i + 1, [count EXCEPT ![n] = @ + 1])
             ELSE <<n>> \o RenameFrom(columns, i + 1, (n :> 0) @@ count)

Range(s) == {s[i] : i \in 1..Len(s)}

\* lines 91-103 without the test of line 95: the names always go through
\* the renaming loop
BuildDataFrame_always_renamed(values) ==
    LET headers == [i \in 1..Len(values[1]) |-> strip(values[1][i])]
    IN  [columns |-> RenameFrom(headers, 1, <<>>), rows |-> Tail(values)]

\* lines 91-103: the DataFrame built from the worksheet's values
BuildDataFrame(values) ==
    LET headers == [i \in 1..Len(values[1]) |-> strip(values[1][i])]
        cols    == IF Len(headers) # Cardinality(Range(headers))
                   THEN RenameFrom(headers, 1, <<>>)
                   ELSE headers
    IN  [columns |-> cols, rows |-> Tail(values)]

\* the header texts a worksheet may hold, before trimming
HeaderNames ==
    { <<>>, <<" ">>, <<"Ticker">>, <<"Ticker", " ">>, <<"Note">>,
      <<"Ticker", "_", "1">>, <<"Ticker", "_", "2">>,
      <<"Unnamed">>, <<"Unnamed", "_", "1">> }

HeaderRows == SeqsUpTo(HeaderNames, MaxCols)

\* one data row of empty cells, as wide as the header row
BlankRow(h) == [i \in 1..Len(h) |-> <<>>]

InitLoad ==
    /\ \E h \in HeaderRows :
         data \in {<<>>, <<h>>, <<h, BlankRow(h)>>}
    /\ attempt = 0
    /\ loaded = [done |-> FALSE, df |-> EmptyDataFrame, raised |-> FALSE, how |-> "running"]
    /\ NormIdle
    /\ ReportIdle
    /\ PricesIdle
    /\ AppIdle

\* the loop making one more pass than range(max_retries)
Running_one_more == ~loaded.done /\ attempt <= max_retries

\* line 77: the loop has a pass left and no return has ended the call
Running == ~loaded.done /\ attempt < max_retries

\* line 81: get_gsheet_connection gave no spreadsheet
LoadNoConnection ==
    /\ Running
    /\ loaded' = [done |-> TRUE, df |-> EmptyDataFrame, raised |-> FALSE,
                  how |-> "no_connection"]
    /\ UNCHANGED <<data, attempt, exceptLoad>>

\* WorksheetNotFound leaving load_data: no except clause holds it
LoadWorksheetNotFoundEscapes ==
    /\ Running
    /\ loaded' = [done |-> TRUE, df |-> EmptyDataFrame, raised |-> TRUE,
                  how |-> "not_found"]
    /\ UNCHANGED <<data, attempt, exceptLoad>>

\* lines 83-87: the worksheet does not exist; the inner except returns an
\* empty DataFrame
LoadWorksheetNotFound ==
    /\ Running
    /\ loaded' = [done |-> TRUE, df |-> EmptyDataFrame, raised |-> FALSE,
                  how |-> "not_found"]
    /\ UNCHANGED <<data, attempt, exceptLoad>>

\* lines 105-106: any other exception ends the attempt; the loop goes on
LoadAttemptFails ==
    /\ Running
    /\ attempt' = attempt + 1
    /\ UNCHANGED <<data, loaded, exceptLoad>>

\* lines 85-103: the values were read
LoadReturns ==
    /\ Running
    /\ loaded' = [done |-> TRUE,
                  df |-> IF data = <<>> THEN EmptyDataFrame ELSE BuildDataFrame(data),
                  raised |-> FALSE,
                  how |-> IF data = <<>> THEN "no_rows" ELSE "read"]
    /\ UNCHANGED <<data, attempt, exceptLoad>>

\* line 107: every attempt failed
LoadGivesUp ==
    /\ ~loaded.done
    /\ attempt = max_retries
    /\ loaded' = [done |-> TRUE, df |-> EmptyDataFrame, raised |-> FALSE, how |-> "gave_up"]
    /\ UNCHANGED <<data, attempt, exceptLoad>>

NextLoad ==
    \/ LoadNoConnection
    \/ LoadWorksheetNotFound
    \/ LoadAttemptFails
    \/ LoadReturns
    \/ LoadGivesUp

SpecLoad == InitLoad /\ [][NextLoad]_vars

\* load_data is sequential code: a call that has not returned takes its next
\* step (every request of the attempt answers or fails, time.sleep(2) ends)
SpecLoadFair == InitLoad /\ [][NextLoad]_vars /\ WF_vars(NextLoad)

(***************************************************************************)
(* generate_daily_report: data_manager.py 163-367 and app.py 140-337.      *)
(* The two copies differ in the DailyJudgment section and in the order of  *)
(* the price candidates; impl says which copy runs.                        *)
(*                                                                         *)
(* Column names, labels and text cells are sequences of tokens standing    *)
(* for the sheet's texts; a name that contains another as a substring      *)
(* contains its tokens.  A line of the report is its text and the section  *)
(* that appended it.                                                       *)
(***************************************************************************)
empty(df) == df.columns = <<>> \/ df.rows = <<>>

Count(columns, name) == Cardinality({i \in 1..Len(columns) : columns[i] = name})

\* row.get(name, default), for a name one column at most carries
get(df, r, name, default) ==
    IF Count(df.columns, name) = 0 THEN default
    ELSE df.rows[r][IndexOf(df.columns, name)]

\* row.get(name) is a Series: several columns carry the name
IsSeries(df, name) == Count(df.columns, name) > 1

\* keyword in str(c)
Contains(name, keyword) ==
    \E i \in 0..(Len(name) - Len(keyword)) :
        SubSeq(name, i + 1, i + Len(keyword)) = keyword

\* find_col keeping the last match instead of the first
find_col_last(columns, keyword) ==
    IF \E i \in 1..Len(columns) : Contains(columns[i], keyword)
    THEN columns[CHOOSE i \in 1..Len(columns) :
                    /\ Contains(columns[i], keyword)
                    /\ \A j \in (i + 1)..Len(columns) : ~Contains(columns[j], keyword)]
    ELSE <<>>

\* find_col, and next((c for c in columns if keyword in c), None); the
\* empty name stands for None (no name containing a keyword is empty)
find_col(columns, keyword) ==
    IF \E i \in 1..Len(columns) : Contains(columns[i], keyword)
    THEN columns[CHOOSE i \in 1..Len(columns) :
                    /\ Contains(columns[i], keyword)
                    /\ \A j \in 1..(i - 1) : ~Contains(columns[j], keyword)]
    ELSE <<>>

\* pd.to_datetime of a cell "2024/1/d": the day of the month, 0 for NaT
to_datetime(cell) ==
    IF Len(cell) = 2 /\ cell[1] = "2024/1/" /\ IsDigit(cell[2]) /\ DigVal(cell[2]) >= 1
    THEN DigVal(cell[2]) ELSE 0

\* fmt_date: strftime('%Y-%m-%d') of the parsed date, the text itself when
\* the parse fails
fmt_date(cell) ==
    IF to_datetime(cell) = 0 THEN cell
    ELSE <<"2024-01-", "0", DigChar(to_datetime(cell))>>

------------------------------------------------------------------------------
(***************************************************************************)
(* Section [C]: the Overview table.                                        *)
(***************************************************************************)
StockValue   == <<"StockValue">>
Cash         == <<"Cash">>
PledgeLoan   == <<"PledgeLoan">>
TotalAssets  == <<"TotalAssets", "Value">>
RealNAV      == <<"RealNAV">>
PledgeRate   == <<"Pledge", "Rate">>
ExposureE    == <<"Exposure", " ", "E">>
LeverageBeta == <<"Leverage", "Beta">>
BetaLight    == <<"Beta", "Light">>
ELight       == <<"E", "Light">>
Goal         == <<"Goal">>
GoalGap      == <<"Goal", "Gap">>
Progress     == <<"Progress">>
DensityLDR   == <<"LeverageDensity", "LDR">>
LDRLight     == <<"LDR", "Light">>

\* lines 182-198: the dict items, in insertion order
items ==
    << [key |-> StockValue,   label |-> StockValue],
       [key |-> Cash,         label |-> Cash],
       [key |-> PledgeLoan,   label |-> PledgeLoan],
       [key |-> TotalAssets,  label |-> TotalAssets],
       [key |-> RealNAV,      label |-> RealNAV],
       [key |-> PledgeRate,   label |-> PledgeRate],
       [key |-> ExposureE,    label |-> ExposureE],
       [key |-> LeverageBeta, label |-> ExposureE],
       [key |-> BetaLight,    label |-> BetaLight],
       [key |-> ELight,       label |-> ELight],
       [key |-> Goal,         label |-> Goal],
       [key |-> GoalGap,      label |-> <<"Target", "Gap">>],
       [key |-> Progress,     label |-> Progress],
       [key |-> DensityLDR,   label |-> <<"LDR">>],
       [key |-> LDRLight,     label |-> LDRLight] >>

\* line 204 and line 209
PctKeys == {Progress, LeverageBeta, ExposureE, PledgeRate, DensityLDR}
IntKeys == {StockValue, Cash, PledgeLoan, TotalAssets, RealNAV, Goal, GoalGap}

\* the rows of df_c whose index, the trimmed first cell, is key
IndexRows(df, key) == {r \in 1..Len(df.rows) : strip(df.rows[r][1]) = key}

\* val_str formatting a ratio value that carries a % like any other
val_str_no_passthrough(key, val, tieUp) ==
    IF key \in PctKeys THEN fmt_pct(val, tieUp)
    ELSE IF key \in IntKeys THEN fmt_int(val)
    ELSE val

\* lines 203-210: val_str for one value
val_str(key, val, tieUp) ==
    IF key \in PctKeys
    THEN IF \E i \in 1..Len(val) : val[i] = "%" THEN val ELSE fmt_pct(val, tieUp)
    ELSE IF key \in IntKeys THEN fmt_int(val)
    ELSE val

\* fmt_pct or fmt_int is handed a Series: several rows carry item i's key
OverviewRaisesAt(df, i) ==
    /\ items[i].key \in PctKeys \cup IntKeys
    /\ Cardinality(IndexRows(df, items[i].key)) > 1

\* a table of one column has no df_c.columns[0] after set_index (IndexError)
OverviewRaises(df) ==
    \/ Len(df.columns) < 2
    \/ \E i \in 1..Len(items) : OverviewRaisesAt(df, i)

\* the loop reporting an absent key as missing instead of skipping it
OverviewItemReportsMissing(df, i, tieUp) ==
    LET rs == IndexRows(df, items[i].key)
    IN  IF rs = {} THEN <<items[i].label \o <<":", "N/A">> >>
        ELSE IF Cardinality(rs) > 1 THEN <<items[i].label \o <<":", "Series">> >>
        ELSE <<items[i].label \o <<":">>
                 \o val_str(items[i].key, df.rows[CHOOSE r \in rs : TRUE][2], tieUp)>>

\* lines 200-211: the line of item i, none when the key is absent
OverviewItem(df, i, tieUp) ==
    LET rs == IndexRows(df, items[i].key)
    IN  IF rs = {} THEN <<>>
        ELSE IF Cardinality(rs) > 1 THEN <<items[i].label \o <<":", "Series">> >>
        ELSE <<items[i].label \o <<":">>
                 \o val_str(items[i].key, df.rows[CHOOSE r \in rs : TRUE][2], tieUp)>>

\* lines 200-211: the lines the loop appends from item i on, up to its end
\* or to the item that raises
RECURSIVE OverviewItemsFrom(_, _, _)
OverviewItemsFrom(df, i, tieUp) ==
    IF i > Len(items) \/ OverviewRaisesAt(df, i) THEN <<>>
    ELSE OverviewItem(df, i, tieUp) \o OverviewItemsFrom(df, i + 1, tieUp)

\* lines 173-215: the lines of the section
SectionC(df, tieUp) ==
    << <<"[C]">> >>
    \o (IF empty(df) THEN << <<"NoData">> >>
        ELSE (IF Len(df.columns) < 2 THEN <<>> ELSE OverviewItemsFrom(df, 1, tieUp))
             \o (IF OverviewRaises(df) THEN << <<"ReadErrorC">> >> ELSE <<>>))

\* line 212: the except clause ran
OverviewCaught(df) == ~empty(df) /\ OverviewRaises(df)

------------------------------------------------------------------------------
(***************************************************************************)
(* Section [A]: the Holdings table.  No try surrounds it.                  *)
(***************************************************************************)
Ticker     == <<"Ticker">>
TickerName == <<"Ticker", "Name">>
Qty        == <<"Qty">>
AvgCost    == <<"AvgCost">>
Close      == <<"Close">>
LiveClose  == <<"Live", "Close">>
TradePrice == <<"TradePrice">>
Note       == <<"Note">>

\* live_prices_dict.get(ticker) followed by safe_float: None gives 0.0
live_p(prices, ticker) ==
    IF ticker \in DOMAIN prices THEN safe_float_num(prices[ticker]) ELSE Zero

\* app.py 232-237: the live price comes first
price_candidates_app(df, r, prices, ticker) ==
    << live_p(prices, ticker),
       safe_float(get(df, r, Close, <<>>)),
       safe_float(get(df, r, LiveClose, <<>>)),
       safe_float(get(df, r, TradePrice, <<>>)) >>

\* data_manager.py 262-267: the manual close comes first
price_candidates_dm(df, r, prices, ticker) ==
    << safe_float(get(df, r, Close, <<>>)),
       safe_float(get(df, r, LiveClose, <<>>)),
       live_p(prices, ticker),
       safe_float(get(df, r, TradePrice, <<>>)) >>

\* the candidates after safe_float, in the order the copy tries them
price_candidates(copy, df, r, prices, ticker) ==
    IF copy = "app" THEN price_candidates_app(df, r, prices, ticker)
                    ELSE price_candidates_dm(df, r, prices, ticker)

\* lines 268-272: the first candidate with v > 0, else 0.0
close_val(cands) ==
    IF \E i \in 1..Len(cands) : IsPos(cands[i])
    THEN cands[CHOOSE i \in 1..Len(cands) :
                  IsPos(cands[i]) /\ \A j \in 1..(i - 1) : ~IsPos(cands[j])]
    ELSE Zero

\* lines 252-280: the line of one row
HoldingsLine(copy, df, r, prices, tieUp) ==
    LET ticker == strip(get(df, r, Ticker, <<>>))
        name   == get(df, r, TickerName, <<>>)
        qty    == fmt_int(get(df, r, Qty, <<"0">>)) \o <<"shares">>
        avg    == <<"avg">> \o fmt_money(get(df, r, AvgCost, <<"0">>), tieUp)
        cv     == close_val(price_candidates(copy, df, r, prices, ticker))
        close  == <<"close">> \o Format(cv, 2, TRUE, tieUp)
        mkt    == <<"value">> \o Format(Mul(safe_float(get(df, r, Qty, <<"0">>)), cv),
                                         0, TRUE, tieUp)
        note   == strip(get(df, r, Note, <<>>))
    IN  strip(ticker \o <<" ">> \o name \o <<" ", " ">> \o qty \o <<" ", " ">> \o avg
              \o <<" ", " ">> \o close \o <<" ", " ">> \o mkt \o <<" ", " ">> \o note)

\* safe_float is handed a Series and raises outside its try (line 17)
HoldingsRaises(df) ==
    ~empty(df) /\ \E n \in {Qty, AvgCost, Close, LiveClose, TradePrice} : IsSeries(df, n)

\* lines 249-280: the lines of the section
SectionA(copy, df, prices, tieUp) ==
    << <<"\n", "[A]">> >>
    \o (IF empty(df) THEN <<>>
        ELSE [r \in 1..Len(df.rows) |-> HoldingsLine(copy, df, r, prices, tieUp)])

\* close_val of every row
HoldingsCloseVals(copy, df, prices) ==
    IF empty(df) THEN <<>>
    ELSE [r \in 1..Len(df.rows) |->
            close_val(price_candidates(copy, df, r, prices, strip(get(df, r, Ticker, <<>>))))]

------------------------------------------------------------------------------
(***************************************************************************)
(* Section [H]: the DailyJudgment table.                                   *)
(***************************************************************************)
Date == <<"Date">>
TodayRiskLevel     == <<"Today", "Risk", "Level">>
SuggestUnwindRatio == <<"Suggest", "Unwind", "Ratio">>
FlywheelStage      == <<"Flywheel", "Stage">>
TodayCommand       == <<"Today", "Command">>

\* str() of what row.get gave: the cell, or the text of a Series
str_get(df, r, name, default) ==
    IF IsSeries(df, name) THEN <<"Series">> ELSE get(df, r, name, default)

\* re.sub(r"[Debug.*?]", "", cmd, flags=re.DOTALL), the bracket and the
\* word being two tokens: one scan from the left; a match starts at a "["
\* that "Debug" follows and ends at the first "]" after it; the scan goes on
\* behind the match, so what a removal brings together is not looked at
\* again
FirstDebug(cmd) ==
    IF \E i \in 1..(Len(cmd) - 1) : cmd[i] = "[" /\ cmd[i + 1] = "Debug"
    THEN CHOOSE i \in 1..(Len(cmd) - 1) :
            /\ cmd[i] = "[" /\ cmd[i + 1] = "Debug"
            /\ \A k \in 1..(i - 1) : ~(cmd[k] = "[" /\ cmd[k + 1] = "Debug")
    ELSE 0

RECURSIVE StripDebug(_)
StripDebug(cmd) ==
    LET i == FirstDebug(cmd)
        j == IF i = 0 THEN 0 ELSE IndexOf(SubSeq(cmd, i + 2, Len(cmd)), "]")
    IN  IF i = 0 \/ j = 0 THEN cmd
        ELSE SubSeq(cmd, 1, i - 1) \o StripDebug(SubSeq(cmd, i + j + 2, Len(cmd)))

\* the greatest parsed day of a date column, 0 when no cell parses
MaxDay(df, c) ==
    LET days == {to_datetime(df.rows[r][c]) : r \in 1..Len(df.rows)}
    IN  CHOOSE d \in days : \A e \in days : e <= d

\* the rows latest may be.  data_manager.py 222: iloc[-1].  app.py 195-198:
\* the first row of sort_values('dt', ascending=False); the sort is not
\* stable, so any row of the greatest date; NaT sorts last in table order
LatestRows(copy, df) ==
    IF empty(df) THEN {0}
    ELSE IF copy = "data_manager" THEN {Len(df.rows)}
    ELSE LET date_col == find_col(df.columns, Date)
             c == IndexOf(df.columns, date_col)
         IN  IF date_col = <<>> \/ IsSeries(df, date_col) THEN {0}
             ELSE IF MaxDay(df, c) = 0 THEN {1}
             ELSE {r \in 1..Len(df.rows) : to_datetime(df.rows[r][c]) = MaxDay(df, c)}

HLines(ldr, risk, pledge, unwind, flywheel, cmd) ==
    << <<"LDR", ":">> \o ldr,
       <<"RiskLevel", ":">> \o risk,
       PledgeRate \o <<":">> \o pledge,
       <<"SuggestUnwind", ":">> \o unwind,
       <<"FlywheelStage", ":">> \o flywheel,
       <<"Command", ":">> \o cmd >>

NA == <<"N/A">>

\* data_manager.py 221-245: the body of the try
JudgmentBody_dm(df, latest, tieUp) ==
    LET col_ldr    == find_col(df.columns, <<"LDR">>)
        col_risk   == find_col(df.columns, <<"Risk">>)
        col_pledge == find_col(df.columns, <<"Pledge">>)
        col_unwind == find_col(df.columns, <<"Unwind">>)
        col_fw     == find_col(df.columns, <<"Flywheel">>)
        col_cmd    == find_col(df.columns, <<"Command">>)
    IN  HLines(IF col_ldr # <<>> THEN str_get(df, latest, col_ldr, NA) ELSE NA,
               IF col_risk # <<>> THEN str_get(df, latest, col_risk, NA) ELSE NA,
               IF col_pledge # <<>>
                   THEN fmt_pct(get(df, latest, col_pledge, <<"0">>), tieUp)
                   ELSE <<"0", "%">>,
               IF col_unwind # <<>>
                   THEN fmt_pct(get(df, latest, col_unwind, <<"0">>), tieUp)
                   ELSE <<"0", "%">>,
               IF col_fw # <<>> THEN str_get(df, latest, col_fw, NA) ELSE NA,
               strip(StripDebug(IF col_cmd # <<>> THEN str_get(df, latest, col_cmd, NA)
                                                  ELSE NA)))

\* app.py 194-218: the body of the try
JudgmentBody_app(df, latest, tieUp) ==
    LET fw_col == find_col(df.columns, <<"Flywheel">>)
    IN  IF find_col(df.columns, Date) = <<>> THEN << <<"NoDateColumnH">> >>
        ELSE HLines(str_get(df, latest, <<"LDR">>, NA),
                    str_get(df, latest, TodayRiskLevel, NA),
                    fmt_pct(get(df, latest, PledgeRate, <<"0">>), tieUp),
                    fmt_pct(get(df, latest, SuggestUnwindRatio, <<"0">>), tieUp),
                    IF fw_col # <<>> THEN str_get(df, latest, fw_col, NA) ELSE NA,
                    strip(StripDebug(str_get(df, latest, TodayCommand, NA))))

JudgmentBody(copy, df, latest, tieUp) ==
    IF copy = "app" THEN JudgmentBody_app(df, latest, tieUp)
                    ELSE JudgmentBody_dm(df, latest, tieUp)

\* the body raises.  data_manager.py 233-234: fmt_pct is handed a Series.
\* app.py 197, 202-203: pd.to_datetime is handed a DataFrame, fmt_pct a Series
JudgmentRaises(copy, df) ==
    IF copy = "app"
    THEN \/ IsSeries(df, find_col(df.columns, Date))
         \/ /\ find_col(df.columns, Date) # <<>>
            /\ (IsSeries(df, PledgeRate) \/ IsSeries(df, SuggestUnwindRatio))
    ELSE \/ IsSeries(df, find_col(df.columns, <<"Pledge">>))
         \/ IsSeries(df, find_col(df.columns, <<"Unwind">>))

\* data_manager.py 218-246, app.py 191-219: the lines of the section
SectionH(copy, df, latest, tieUp) ==
    << <<"\n", "[H_DailyJudgment]">> >>
    \o (IF empty(df) THEN <<>>
        ELSE IF JudgmentRaises(copy, df) THEN << <<"ParseErrorH">> >>
        ELSE JudgmentBody(copy, df, latest, tieUp))

\* the except clause ran
JudgmentCaught(copy, df) == ~empty(df) /\ JudgmentRaises(copy, df)

------------------------------------------------------------------------------
(***************************************************************************)
(* Sections [F], [D], [E]: the rows of the three most recent dates.        *)
(***************************************************************************)
SetMax(S) == CHOOSE d \in S : \A e \in S : e <= d

\* sorted(..., reverse=True)[:n] of a set of days, as a set
RECURSIVE Greatest(_, _)
Greatest(S, n) ==
    IF n = 0 \/ S = {} THEN {} ELSE {SetMax(S)} \cup Greatest(S \ {SetMax(S)}, n - 1)

recent_days == 3

\* lines 289-291: the rows whose date is one of the 3 greatest parsed dates
last_3_rows(df, c) ==
    LET day(r) == to_datetime(df.rows[r][c])
        unique_dates == Greatest({day(r) : r \in 1..Len(df.rows)} \ {0}, recent_days)
    IN  {r \in 1..Len(df.rows) : day(r) \in unique_dates}

\* sort_values('dt', ascending=True): every order of the rows that is
\* non-decreasing in dt (the sort is not stable)
RECURSIVE SortedOrders(_, _, _)
SortedOrders(df, c, R) ==
    IF R = {} THEN {<<>>}
    ELSE LET day(r) == to_datetime(df.rows[r][c])
             first  == {r \in R : \A q \in R : day(r) <= day(q)}
         IN  UNION { {<<r>> \o t : t \in SortedOrders(df, c, R \ {r})} : r \in first }

\* the orders last_3 / last_d / last_e may have; none when the section
\* does not get to the sort
WindowOrders(df) ==
    LET date_col == find_col(df.columns, Date)
    IN  IF empty(df) \/ date_col = <<>> \/ IsSeries(df, date_col) THEN {<<>>}
        ELSE SortedOrders(df, IndexOf(df.columns, date_col),
                          last_3_rows(df, IndexOf(df.columns, date_col)))

\* lines 302-306
beta(df, r, tieUp) ==
    LET beta_raw == get(df, r, ExposureE, get(df, r, LeverageBeta, <<"0">>))
        beta_val == safe_float(beta_raw)
    IN  IF Leq(beta_val, 5)
        THEN <<"E">> \o Format(Times100(beta_val), 2, FALSE, tieUp) \o <<"%">>
        ELSE <<"E">> \o Format(beta_val, 2, FALSE, tieUp) \o <<"%">>

\* lines 294-308
NavLine(df, r, date_col, tieUp) ==
    fmt_date(get(df, r, date_col, <<>>))
    \o <<" ">> \o StockValue \o fmt_int(get(df, r, StockValue, <<"0">>))
    \o <<" ">> \o <<"TotalAssets">> \o fmt_int(get(df, r, <<"TotalAssets">>, <<"0">>))
    \o <<" ">> \o Cash \o fmt_int(get(df, r, Cash, <<"0">>))
    \o <<" ">> \o <<"NetChange">>
        \o fmt_int_val(safe_float_num(safe_float(get(df, r, <<"NetChange">>, <<"0">>))))
    \o <<" ">> \o <<"NAV">> \o fmt_int(get(df, r, RealNAV, <<"0">>))
    \o <<" ">> \o beta(df, r, tieUp)

\* re.sub(' +', ' ', line)
RECURSIVE CollapseSpaces(_)
CollapseSpaces(s) ==
    IF Len(s) < 2 THEN s
    ELSE IF s[1] = " " /\ s[2] = " " THEN CollapseSpaces(Tail(s))
    ELSE <<s[1]>> \o CollapseSpaces(Tail(s))

\* "+" before the formatted amount when it is positive
signed_int(v) ==
    IF IsPos(v) THEN <<"+">> \o fmt_int_val(safe_float_num(v))
                ELSE fmt_int_val(safe_float_num(v))

\* lines 325-338
CashFlowLine(df, r, date_col, tieUp) ==
    LET d       == fmt_date(get(df, r, date_col, <<>>))
        item    == get(df, r, <<"Purpose", "/", "Ticker">>, <<>>)
        act     == get(df, r, <<"Action">>, <<>>)
        amt_raw == safe_float(get(df, r, <<"Net">>, <<"0">>))
        amt_str == <<"amount">> \o signed_int(amt_raw)
        qty_val == safe_float(get(df, r, <<"Count">>, <<"0">>))
        qty     == IF IsPos(qty_val)
                   THEN fmt_int_val(safe_float_num(qty_val)) \o <<"shares">> ELSE <<>>
        price_val == safe_float(get(df, r, TradePrice, <<"0">>))
        price   == IF IsPos(price_val)
                   THEN fmt_money_val(safe_float_num(price_val), tieUp) ELSE <<>>
        note    == strip(get(df, r, Note, <<>>))
        note_str == IF note # <<>> THEN <<"note:">> \o note ELSE <<>>
    IN  strip(CollapseSpaces(d \o <<" ">> \o item \o <<" ">> \o act \o <<" ">> \o qty
              \o <<" ">> \o price \o <<" ">> \o amt_str \o <<" ">> \o note_str))

\* lines 355-362
PnLLine(df, r, date_col, tieUp) ==
    LET d       == fmt_date(get(df, r, date_col, <<>>))
        stk     == get(df, r, Ticker, <<>>)
        pnl_raw == safe_float(get(df, r, <<"RealizedPnL">>, <<"0">>))
        pnl_str == <<"pnl">> \o signed_int(pnl_raw)
        qty     == fmt_int(get(df, r, <<"Shares">>, <<"0">>)) \o <<"shares">>
        note    == strip(get(df, r, Note, <<>>))
    IN  d \o <<" ">> \o stk \o <<" ">> \o qty \o <<" ">> \o pnl_str \o <<" ">> \o note

WindowHeader(sec) ==
    IF sec = "F" THEN <<"\n", "[F_Recent3Days]">>
    ELSE IF sec = "D" THEN <<"\n", "[D_Recent3DaysTrades]">>
    ELSE <<"\n", "[E_Recent3DaysRealizedPnL]">>

NoDateLine(sec) ==
    IF sec = "F" THEN <<"NoDateColumnF">>
    ELSE IF sec = "D" THEN <<"NoDateColumnD">>
    ELSE <<"NoDateColumnToSortBy">>

ParseErrorLine(sec) ==
    IF sec = "F" THEN <<"ParseErrorF">>
    ELSE IF sec = "D" THEN <<"ParseErrorD">>
    ELSE <<"ParseErrorE">>

\* pd.to_datetime is handed a DataFrame: several columns carry the date
\* column's name
WindowRaises(df) == IsSeries(df, find_col(df.columns, Date))

\* a window section that leaves its header out for an empty table
Window_header_when_rows(sec, df, loop) ==
    IF empty(df) THEN <<>>
    ELSE <<WindowHeader(sec)>>
         \o (IF find_col(df.columns, Date) = <<>> THEN <<NoDateLine(sec)>>
             ELSE IF WindowRaises(df) THEN <<ParseErrorLine(sec)>>
             ELSE loop)

\* the lines of a window section, given the lines of its loop
Window(sec, df, loop) ==
    <<WindowHeader(sec)>>
    \o (IF empty(df) THEN <<>>
        ELSE IF find_col(df.columns, Date) = <<>> THEN <<NoDateLine(sec)>>
        ELSE IF WindowRaises(df) THEN <<ParseErrorLine(sec)>>
        ELSE loop)

\* lines 283-311
SectionF(df, order, tieUp) ==
    Window("F", df, [i \in 1..Len(order) |->
                        NavLine(df, order[i], find_col(df.columns, Date), tieUp)])

\* lines 314-341
SectionD(df, order, tieUp) ==
    Window("D", df, [i \in 1..Len(order) |->
                        CashFlowLine(df, order[i], find_col(df.columns, Date), tieUp)])

\* lines 344-365
SectionE(df, order, tieUp) ==
    Window("E", df, [i \in 1..Len(order) |->
                        PnLLine(df, order[i], find_col(df.columns, Date), tieUp)])

\* the except clause ran
WindowCaught(df) == ~empty(df) /\ WindowRaises(df)

------------------------------------------------------------------------------
(***************************************************************************)
(* The tables and live prices generate_daily_report is called with.  One   *)
(* table at a time ranges over its family while the others hold a sample   *)
(* (the three dated tables range together, over the same days), or every   *)
(* table is either its sample or empty.                                    *)
(***************************************************************************)
DateCell(d) == <<"2024/1/", DigChar(d)>>
DateCells == {DateCell(d) : d \in 1..4} \cup {<<"a">>}

Suffixed(name, k) == name \o <<"_">> \o NatStr(k)

\* Holdings
HoldingsColumns == <<Ticker, TickerName, Qty, AvgCost, Close, LiveClose, TradePrice, Note>>
HoldingRow(c, l, t) ==
    << <<"2330">>, <<"TSMC">>, <<"1", ",", "0", "0", "0">>, <<"5", "0">>, c, l, t, <<>> >>
HoldingRows ==
    { HoldingRow(c, l, t) :
        c \in {<<"0">>, <<"5", "0">>, <<"(", "5", ")">>},
        l \in {<<"0">>, <<"6", "0">>},
        t \in {<<"0">>, <<"9", "0">>} }
\* a DataFrame with two columns named Close.  load_data renames the second,
\* so app.py, which reports only what load_data returned, never has one; a
\* caller of data_manager.generate_daily_report may pass it
TwoCloseColumns == <<Ticker, TickerName, Qty, AvgCost, Close, Close, TradePrice, Note>>
HoldingsTables ==
    {[columns |-> HoldingsColumns, rows |-> rs] : rs \in SeqsUpTo(HoldingRows, MaxHoldings)}
    \cup {[columns |-> TwoCloseColumns,
           rows |-> <<HoldingRow(<<"5", "0">>, <<"0">>, <<"9", "0">>)>>]}
HoldingsSample ==
    [columns |-> HoldingsColumns,
     rows |-> <<HoldingRow(<<"0">>, <<"0">>, <<"9", "0">>)>>]

Hundred == Fin(FALSE, <<1, 0, 0>>, <<>>)
LivePrices == { <<>>, (<<"2330">> :> Hundred), (<<"2330">> :> NaN) }

\* Overview
OverviewColumns == << <<"Item">>, <<"Value">> >>
OverviewRows ==
    { <<ExposureE, <<"1", ".", "2">> >>,
      <<ExposureE \o <<" ">>, <<"1", "0", "%">> >>,
      <<LeverageBeta, <<"1", ".", "0", "5">> >>,
      <<Cash, <<"(", "5", "0", ",", "0", "0", "0", ")">> >>,
      <<StockValue, <<"1", ",", "0", "0", "0", ",", "0", "0", "0">> >>,
      <<BetaLight, <<"green">> >>,
      <<PledgeRate, <<"4", "2", ".", "0">> >>,
      << <<"Other">>, <<"x">> >> }
OverviewTables ==
    {[columns |-> OverviewColumns, rows |-> rs] : rs \in SeqsUpTo(OverviewRows, MaxOverviewRows)}
    \cup {[columns |-> << <<"Item">> >>, rows |-> << <<Cash>> >>]}
OverviewSample ==
    [columns |-> OverviewColumns,
     rows |-> << <<StockValue, <<"1", ",", "0", "0", "0", ",", "0", "0", "0">> >>,
                 <<Cash, <<"(", "5", "0", ",", "0", "0", "0", ")">> >>,
                 <<LeverageBeta, <<"1", ".", "0", "5">> >> >>]

\* DailyJudgment
\* the cell of a DailyJudgment row under a column, for the row's date cell
JudgmentCell(name, d) ==
    IF Contains(name, Date) THEN d
    ELSE IF name = <<"LDR">> THEN <<"1", ".", "5">>
    ELSE IF Contains(name, <<"Risk">>) THEN <<"low">>
    ELSE IF Contains(name, <<"Pledge">>) THEN <<"0", ".", "1", "5">>
    ELSE IF Contains(name, <<"Unwind">>) THEN <<"0">>
    ELSE IF Contains(name, <<"Flywheel">>) THEN <<"stage2">>
    ELSE <<"[", "Debug", "x", "]", " ", "hold">>

JudgmentColumnSets ==
    { <<Date, <<"LDR">>, TodayRiskLevel, PledgeRate, SuggestUnwindRatio,
        FlywheelStage, TodayCommand>>,
      << <<"LDR">>, TodayRiskLevel, PledgeRate, SuggestUnwindRatio,
         FlywheelStage, TodayCommand>>,
      <<Date, <<"LDR">> >>,
      <<Suffixed(Date, 1), Suffixed(PledgeRate, 1), Date, PledgeRate,
        Suffixed(Date, 1), Suffixed(PledgeRate, 1)>> }

JudgmentTable(cols, ds) ==
    [columns |-> cols,
     rows |-> [r \in 1..Len(ds) |-> [c \in 1..Len(cols) |-> JudgmentCell(cols[c], ds[r])]]]

JudgmentDates == {DateCell(1), DateCell(2), <<"a">>}

JudgmentTables ==
    { JudgmentTable(cols, ds) :
        cols \in JudgmentColumnSets, ds \in SeqsUpTo(JudgmentDates, MaxJudgmentRows) }
JudgmentSample ==
    JudgmentTable(<<Date, <<"LDR">>, TodayRiskLevel, PledgeRate, SuggestUnwindRatio,
                    FlywheelStage, TodayCommand>>, <<DateCell(1)>>)

\* DailyNAV, CashFlow, RealizedPnL: the columns, and the cell under a column
WindowColumns(sec) ==
    IF sec = "F" THEN <<Date, StockValue, ExposureE>>
    ELSE IF sec = "D"
        THEN << <<"Trade", "Date">>, <<"Purpose", "/", "Ticker">>, <<"Action">>, <<"Net">>,
                <<"Count">>, TradePrice, Note>>
    ELSE <<Date, Ticker, <<"RealizedPnL">>, <<"Shares">>, Note>>

WindowCell(name, d) ==
    IF Contains(name, Date) THEN d
    ELSE IF name = ExposureE THEN <<"1", ".", "0", "5">>
    ELSE IF name = <<"Purpose", "/", "Ticker">> \/ name = Ticker THEN <<"2330">>
    ELSE IF name = <<"Action">> THEN <<"buy">>
    ELSE IF name = <<"Net">> THEN <<"(", "5", "0", ")">>
    ELSE IF name = Note THEN <<>>
    ELSE <<"1", "0">>

WindowTable(cols, ds) ==
    [columns |-> cols,
     rows |-> [r \in 1..Len(ds) |-> [c \in 1..Len(cols) |-> WindowCell(cols[c], ds[r])]]]

\* the header rows without a date column, and with the names load_data
\* gives the header row Date_1, Date, Date
WindowVariants(sec) ==
    { WindowTable(Tail(WindowColumns(sec)), <<DateCell(1)>>),
      WindowTable(<<Suffixed(Date, 1), Date, Suffixed(Date, 1)>>, <<DateCell(1)>>) }
WindowSample(sec) == WindowTable(WindowColumns(sec), <<DateCell(2), DateCell(1)>>)

\* DailyJudgment with one row, the command cell ranging
CommandCells ==
    { <<"hold">>, <<>>,
      <<"[", "Debug", "x", "]", " ", "hold">>,
      <<"buy", "[", "Debug", "\n", "x", "]", "[", "Debug", "]", "now">>,
      <<"[", "Debug", "x">>, <<"Debug", "x", "]">>, <<"[", "x", "]">>,
      <<"[", "Debug", "[", "Debug", "x", "]", "y", "]">>,
      <<"[", "[", "Debug", "x", "]", "Debug", "y", "]">> }
CommandTable(cmd) ==
    [columns |-> <<Date, TodayCommand>>, rows |-> << <<DateCell(1), cmd>> >>]

\* CashFlow with one row, the quantity, price and note cells ranging
QuantityCells == { <<"0">>, <<"1", "0">>, <<"(", "1", "0", ")">>, <<"a">>, <<>> }
PriceCells    == { <<"0">>, <<"9", "0">>, <<"-", "9", "0">>, <<"0", ".", "0", "0", "1">> }
NoteCells     == { <<>>, <<" ">>, <<" ", "x">> }
CashFlowTable(q, p, n) ==
    [columns |-> WindowColumns("D"),
     rows |-> << <<DateCell(1), <<"2330">>, <<"buy">>, <<"(", "5", "0", ")">>, q, p, n>> >>]

\* DailyNAV with one row, the exposure cell ranging
ExposureCells ==
    { <<"1", ".", "0", "5">>, <<"5", ".", "0">>, <<"5", ".", "0", "1">>, <<"0">>,
      <<"4", "2", ".", "0">>, <<"(", "0", ".", "1", "5", ")">>, <<"(", "6", ")">>,
      <<"-", "5", ".", "0", "1">>, <<"-", "0">>, <<"a">>, <<>> }
NavTable(e) ==
    [columns |-> WindowColumns("F"), rows |-> << <<DateCell(1), <<"1", "0">>, e>> >>]

Sections == {"A", "C", "D", "E", "F", "H"}

Sample(sec) ==
    IF sec = "A" THEN HoldingsSample
    ELSE IF sec = "C" THEN OverviewSample
    ELSE IF sec = "H" THEN JudgmentSample
    ELSE WindowSample(sec)

Samples == [s \in Sections |-> Sample(s)]
SamplePrices == (<<"2330">> :> Hundred)

NoLocals == [latest |-> 0, close_val |-> <<>>, caught |-> {}]

InitReport ==
    /\ impl \in {"data_manager", "app"}
    /\ \/ \E t \in HoldingsTables :
             /\ impl = "app" => t.columns = HoldingsColumns
             /\ tables = [Samples EXCEPT !.A = t]
             /\ live_prices_dict \in LivePrices
       \/ \E t \in OverviewTables :
             /\ tables = [Samples EXCEPT !.C = t]
             /\ live_prices_dict = SamplePrices
       \/ \E t \in JudgmentTables :
             /\ tables = [Samples EXCEPT !.H = t]
             /\ live_prices_dict = SamplePrices
       \/ \E ds \in SeqsUpTo(DateCells, MaxWindowRows) :
             /\ tables = [Samples EXCEPT !.F = WindowTable(WindowColumns("F"), ds),
                                         !.D = WindowTable(WindowColumns("D"), ds),
                                         !.E = WindowTable(WindowColumns("E"), ds)]
             /\ live_prices_dict = SamplePrices
       \/ \E cmd \in CommandCells :
             /\ tables = [Samples EXCEPT !.H = CommandTable(cmd)]
             /\ live_prices_dict = SamplePrices
       \/ \E q \in QuantityCells, p \in PriceCells, n \in NoteCells :
             /\ tables = [Samples EXCEPT !.D = CashFlowTable(q, p, n)]
             /\ live_prices_dict = SamplePrices
       \/ \E e \in ExposureCells :
             /\ tables = [Samples EXCEPT !.F = NavTable(e)]
             /\ live_prices_dict = SamplePrices
       \/ \E sec \in {"F", "D", "E"} : \E t \in WindowVariants(sec) :
             /\ tables = [Samples EXCEPT ![sec] = t]
             /\ live_prices_dict = SamplePrices
       \/ \E S \in SUBSET Sections :
             /\ tables = [s \in Sections |-> IF s \in S THEN EmptyDataFrame ELSE Sample(s)]
             /\ live_prices_dict = SamplePrices
    /\ pc = "start"
    /\ lines = <<>>
    /\ locals = NoLocals
    /\ NormIdle
    /\ LoadIdle
    /\ PricesIdle
    /\ AppIdle

Tagged(sec, ls) == [i \in 1..Len(ls) |-> [sec |-> sec, text |-> ls[i]]]

\* df_x = df_X.copy() left out: the statements that follow act on the table
\* passed in
no_copy(df, worked) == worked

\* df_x = df_X.copy(): the statements that follow act on the copy, and the
\* table passed in is as it was
copy(df, worked) == df

\* lines 177-179: the first column, its cells trimmed, becomes the index
set_index(df) ==
    IF empty(df) THEN df
    ELSE [columns |-> Tail(df.columns),
          rows    |-> [r \in 1..Len(df.rows) |-> Tail(df.rows[r])],
          index   |-> [r \in 1..Len(df.rows) |-> strip(df.rows[r][1])]]

\* lines 287-289, 318-320, 348-350 (app.py 195-197 for df_h): the column
\* 'dt' is added when a date column is found and pd.to_datetime does not raise
with_dt(df) ==
    IF empty(df) \/ find_col(df.columns, Date) = <<>>
                \/ IsSeries(df, find_col(df.columns, Date))
    THEN df
    ELSE [columns |-> Append(df.columns, <<"dt">>),
          rows    |-> [r \in 1..Len(df.rows) |->
                         Append(df.rows[r],
                                <<"dt", NatStr(to_datetime(
                                    get(df, r, find_col(df.columns, Date), <<>>)))>>)]]

\* lines 168-170
Begin ==
    /\ pc = "start"
    /\ lines' = Tagged("date", << <<"[Date]", " ", "today", "\n">> >>)
    /\ pc' = "C"
    /\ UNCHANGED <<impl, tables, live_prices_dict, locals, exceptReport>>

RunC ==
    /\ pc = "C"
    /\ \E tieUp \in BOOLEAN : lines' = lines \o Tagged("C", SectionC(tables.C, tieUp))
    /\ locals' = [locals EXCEPT
           !.caught = IF OverviewCaught(tables.C) THEN @ \cup {"C"} ELSE @]
    /\ pc' = "H"
    /\ tables' = [tables EXCEPT !.C = copy(@, set_index(@))]
    /\ UNCHANGED <<impl, live_prices_dict, exceptReport>>

RunH ==
    /\ pc = "H"
    /\ \E tieUp \in BOOLEAN, latest \in LatestRows(impl, tables.H) :
         /\ lines' = lines \o Tagged("H", SectionH(impl, tables.H, latest, tieUp))
         /\ locals' = [locals EXCEPT
                !.latest = latest,
                !.caught = IF JudgmentCaught(impl, tables.H) THEN @ \cup {"H"} ELSE @]
    /\ pc' = "A"
    /\ tables' = [tables EXCEPT !.H = copy(@, IF impl = "app" THEN with_dt(@) ELSE @)]
    /\ UNCHANGED <<impl, live_prices_dict, exceptReport>>

\* no try: an exception of the Holdings loop leaves the function
RunA ==
    /\ pc = "A"
    /\ IF HoldingsRaises(tables.A)
       THEN pc' = "raised" /\ UNCHANGED <<lines, locals>>
       ELSE /\ pc' = "F"
            /\ \E tieUp \in BOOLEAN :
                 lines' = lines \o Tagged("A", SectionA(impl, tables.A, live_prices_dict,
                                                         tieUp))
            /\ locals' = [locals EXCEPT
                   !.close_val = HoldingsCloseVals(impl, tables.A, live_prices_dict)]
    /\ UNCHANGED <<impl, tables, live_prices_dict, exceptReport>>

RunF ==
    /\ pc = "F"
    /\ \E tieUp \in BOOLEAN, order \in WindowOrders(tables.F) :
         lines' = lines \o Tagged("F", SectionF(tables.F, order, tieUp))
    /\ locals' = [locals EXCEPT
           !.caught = IF WindowCaught(tables.F) THEN @ \cup {"F"} ELSE @]
    /\ pc' = "D"
    /\ tables' = [tables EXCEPT !.F = copy(@, with_dt(@))]
    /\ UNCHANGED <<impl, live_prices_dict, exceptReport>>

RunD ==
    /\ pc = "D"
    /\ \E tieUp \in BOOLEAN, order \in WindowOrders(tables.D) :
         lines' = lines \o Tagged("D", SectionD(tables.D, order, tieUp))
    /\ locals' = [locals EXCEPT
           !.caught = IF WindowCaught(tables.D) THEN @ \cup {"D"} ELSE @]
    /\ pc' = "E"
    /\ tables' = [tables EXCEPT !.D = copy(@, with_dt(@))]
    /\ UNCHANGED <<impl, live_prices_dict, exceptReport>>

\* the last section, and line 367: the function returns "\n".join(lines)
RunE ==
    /\ pc = "E"
    /\ \E tieUp \in BOOLEAN, order \in WindowOrders(tables.E) :
         lines' = lines \o Tagged("E", SectionE(tables.E, order, tieUp))
    /\ locals' = [locals EXCEPT
           !.caught = IF WindowCaught(tables.E) THEN @ \cup {"E"} ELSE @]
    /\ pc' = "done"
    /\ tables' = [tables EXCEPT !.E = copy(@, with_dt(@))]
    /\ UNCHANGED <<impl, live_prices_dict, exceptReport>>

NextReport == Begin \/ RunC \/ RunH \/ RunA \/ RunF \/ RunD \/ RunE

SpecReport == InitReport /\ [][NextReport]_vars

\* "\n".join(lines)
RECURSIVE Join(_)
Join(ls) ==
    IF ls = <<>> THEN <<>>
    ELSE IF Len(ls) = 1 THEN ls[1].text
    ELSE ls[1].text \o <<"\n">> \o Join(Tail(ls))

(***************************************************************************)
(* Specification of find_col (data_manager.py 52-54): one call on a list   *)
(* of column names and a keyword.  value holds the two arguments.          *)
(***************************************************************************)
ColumnNames ==
    { <<"Trade", "Date">>, <<"Date">>, <<"Date", "_", "1">>, <<"Note">>,
      <<"A">>, <<"B">>, <<>> }
Keywords == { <<"Date">>, <<"Note">>, <<"Date", "_">> }

InitFind ==
    /\ \E cs \in SeqsUpTo(ColumnNames, MaxCols), k \in Keywords :
          value = [columns |-> cs, keyword |-> k]
    /\ call = "none"
    /\ result = NoResult
    /\ LoadIdle
    /\ ReportIdle
    /\ PricesIdle
    /\ AppIdle

FindCol ==
    /\ call = "none"
    /\ call' = "find_col"
    /\ result' = [raised |-> FALSE, val |-> Zero,
                  out |-> find_col(value.columns, value.keyword)]
    /\ UNCHANGED <<value, exceptNorm>>

NextFind == FindCol

SpecFind == InitFind /\ [][NextFind]_vars

(***************************************************************************)
(* fetch_current_prices and write_prices_to_sheet (data_manager.py         *)
(* 109-160; app.py 391-442 is the same text).  A float of the price        *)
(* source is a price in thousandths or nan; a dict is a function.          *)
(***************************************************************************)
MaxTickers == 2     \* most entries of the tickers argument
MaxRows == 2        \* most rows of the Holdings table handed to write_prices_to_sheet

Price(m)  == [k |-> "fin", m |-> m]
float_nan == [k |-> "nan", m |-> 0]
Blank     == [k |-> "str", m |-> 0]     \* the cell ''
EmptyDict == [t \in {} |-> float_nan]

\* round(float(val), 2), for a val whose third decimal is not 5
round2(val) == IF val.k = "nan" THEN val ELSE Price(((val.m + 5) \div 10) * 10)

\* raw_t.isdigit()
isdigit(raw_t) == raw_t # <<>> /\ \A i \in 1..Len(raw_t) : IsDigit(raw_t[i])

\* lines 115-117: the raw_t's the loop keeps, in order
raw_ts(tkrs) ==
    SelectSeq([i \in 1..Len(tkrs) |-> strip(tkrs[i])], LAMBDA t : t # <<>>)

\* lines 118-119
y_t(raw_t) == IF isdigit(raw_t) THEN raw_t \o <<".", "T", "W">> ELSE raw_t

\* line 121
query_tickers(tkrs) ==
    LET raw == raw_ts(tkrs) IN [i \in 1..Len(raw) |-> y_t(raw[i])]

\* line 120: a later raw_t replaces an earlier one under the same y_t
ticker_map(tkrs) ==
    LET raw == raw_ts(tkrs)
    IN  [y \in {y_t(raw[i]) : i \in 1..Len(raw)} |->
            raw[CHOOSE i \in 1..Len(raw) :
                    y_t(raw[i]) = y /\ \A j \in (i + 1)..Len(raw) : y_t(raw[j]) # y]]

\* lines 111-145.  dl is yf.download's answer: it raised, it is empty, it
\* has no 'Close', its closes are empty, or closes.iloc[-1] is last_row
fetch_current_prices(tkrs, dl) ==
    IF tkrs = <<>> THEN EmptyDict
    ELSE IF dl.kind # "ok" THEN EmptyDict
    ELSE
        LET q  == query_tickers(tkrs)
            tm == ticker_map(tkrs)
            last_row == dl.last_row
        IN  IF Len(q) = 1
            THEN (tm[q[1]] :> round2(last_row[q[1]]))
            ELSE [original_t \in
                    {tm[y] : y \in {z \in DOMAIN tm :
                                      z \in DOMAIN last_row /\ last_row[z].k # "nan"}}
                  |-> round2(last_row[y_t(original_t)])]

\* `if p:` for p = updates.get(t)
truthy(upd, t) == t \in DOMAIN upd /\ ~(upd[t].k = "fin" /\ upd[t].m = 0)

\* lines 152-157 leaving out the rows that have no price
vals_only_priced(df, upd) ==
    SelectSeq([r \in 1..Len(df.rows) |->
                  LET t == strip(str_get(df, r, Ticker, <<>>))
                  IN  IF truthy(upd, t) THEN upd[t] ELSE Blank],
              LAMBDA c : c # Blank)

\* lines 152-157: one cell per row of df_A
vals(df, upd) ==
    [r \in 1..Len(df.rows) |->
        LET t == strip(str_get(df, r, Ticker, <<>>))
        IN  IF truthy(upd, t) THEN upd[t] ELSE Blank]

\* ws.update(f'E2:E{2+len(vals)-1}', vals): the cells of rows 2.. of column E
update(E, v) ==
    [i \in 1..(IF Len(v) > Len(E) THEN Len(v) ELSE Len(E)) |->
        IF i <= Len(v) THEN v[i] ELSE E[i]]

NoUpdate == <<>>
UpdateCall(v, ok) ==
    << [first |-> 2, last |-> 2 + Len(v) - 1, vals |-> v, ok |-> ok] >>

\* lines 147-160 answering True although ws.update raised
write_prices_to_sheet_unchecked(df, upd, gs) ==
    IF ~gs.sh THEN [ret |-> FALSE, raised |-> FALSE, update |-> NoUpdate, E |-> gs.E]
    ELSE IF ~gs.ws THEN [ret |-> FALSE, raised |-> FALSE, update |-> NoUpdate, E |-> gs.E]
    ELSE IF vals(df, upd) = <<>>
         THEN [ret |-> TRUE, raised |-> FALSE, update |-> NoUpdate, E |-> gs.E]
    ELSE IF ~gs.ok
         THEN [ret |-> TRUE, raised |-> FALSE,
               update |-> UpdateCall(vals(df, upd), FALSE), E |-> gs.E]
    ELSE [ret |-> TRUE, raised |-> FALSE,
          update |-> UpdateCall(vals(df, upd), TRUE), E |-> update(gs.E, vals(df, upd))]

\* lines 147-160.  gs: whether get_gsheet_connection gave a spreadsheet (sh),
\* whether it has the worksheet (ws), whether ws.update succeeds (ok), and
\* column E from row 2 on
write_prices_to_sheet(df, upd, gs) ==
    IF ~gs.sh THEN [ret |-> FALSE, raised |-> FALSE, update |-> NoUpdate, E |-> gs.E]
    ELSE IF ~gs.ws THEN [ret |-> FALSE, raised |-> FALSE, update |-> NoUpdate, E |-> gs.E]
    ELSE IF vals(df, upd) = <<>>
         THEN [ret |-> TRUE, raised |-> FALSE, update |-> NoUpdate, E |-> gs.E]
    ELSE IF ~gs.ok
         THEN [ret |-> FALSE, raised |-> FALSE,
               update |-> UpdateCall(vals(df, upd), FALSE), E |-> gs.E]
    ELSE [ret |-> TRUE, raised |-> FALSE,
          update |-> UpdateCall(vals(df, upd), TRUE), E |-> update(gs.E, vals(df, upd))]

\* the inputs drawn
TickerCells ==
    { <<"2", "3">>, <<" ", "2", "3">>, <<"A">>, <<"2", "3", ".", "T", "W">>, <<" ">> }
SourceValues == { float_nan, Price(4), Price(12340) }
Downloads(q) ==
    { [kind |-> k, last_row |-> EmptyDict] :
        k \in {"raises", "empty", "no_close", "closes_empty"} }
    \cup { [kind |-> "ok", last_row |-> f] :
             f \in UNION { [S -> SourceValues] : S \in (SUBSET Range(q)) \ {{}} } }
ColumnE == << Price(1000), Price(2000), Price(3000) >>
HoldingsFrames ==
    { [columns |-> c, rows |-> [i \in 1..Len(ts) |-> <<ts[i]>>]] :
        c \in { <<Ticker>>, <<Close>> },
        ts \in SeqsUpTo({ <<"2", "3">>, <<" ", "A">>, <<"Z">> }, MaxRows) }
NotFetched == [done |-> FALSE, res |-> EmptyDict]
NotWritten == [done |-> FALSE, ret |-> FALSE, raised |-> FALSE, update |-> NoUpdate]

InitPrices ==
    /\ tickers \in SeqsUpTo(TickerCells, MaxTickers)
    /\ download \in Downloads(query_tickers(tickers))
    /\ fetched = NotFetched
    /\ df_A = EmptyDataFrame
    /\ gsheet = [sh |-> TRUE, ws |-> TRUE, ok |-> TRUE, E |-> ColumnE]
    /\ written = NotWritten
    /\ NormIdle
    /\ LoadIdle
    /\ ReportIdle
    /\ AppIdle

\* updates = fetch_current_prices(tickers)
FetchPrices ==
    /\ ~fetched.done
    /\ fetched' = [done |-> TRUE, res |-> fetch_current_prices(tickers, download)]
    /\ UNCHANGED <<tickers, download, df_A, gsheet, written, appVars, exceptPrices>>

\* write_prices_to_sheet(df_A, updates), for any Holdings table and any
\* state of the connection
WritePrices ==
    /\ fetched.done /\ ~written.done
    /\ \E df \in HoldingsFrames, sh \in BOOLEAN, ws \in BOOLEAN, ok \in BOOLEAN :
        LET gs == [sh |-> sh, ws |-> ws, ok |-> ok, E |-> gsheet.E]
            w  == write_prices_to_sheet(df, fetched.res, gs)
        IN  /\ df_A' = df
            /\ gsheet' = [gs EXCEPT !.E = w.E]
            /\ written' = [done |-> TRUE, ret |-> w.ret, raised |-> w.raised,
                           update |-> w.update]
    /\ UNCHANGED <<tickers, download, fetched, appVars, exceptPrices>>

NextPrices == FetchPrices \/ WritePrices

SpecPrices == InitPrices /\ [][NextPrices]_vars

(***************************************************************************)
(* The main script of app.py (lines 98-99 and 447-495): one pass loads the *)
(* tables through load_data's cache and then runs the body of the sidebar  *)
(* button that was pressed.  session_state and the two st.cache_data       *)
(* stores outlive the pass.                                                *)
(***************************************************************************)
\* df_A['...'].unique(), then the cells that are not blank (line 483)
unique_tickers(df) ==
    LET col  == [r \in 1..Len(df.rows) |-> get(df, r, Ticker, <<>>)]
        keep == {i \in 1..Len(col) :
                    strip(col[i]) # <<>> /\ \A j \in 1..(i - 1) : col[j] # col[i]}
    IN  [k \in 1..Cardinality(keep) |->
            col[CHOOSE i \in keep : Cardinality({j \in keep : j < i}) = k - 1]]

\* the DataFrame load_data('...A...') reads from the worksheet
SheetFrame(gs) == [columns |-> <<Ticker>>, rows |-> [i \in 1..Len(gs.A) |-> <<gs.A[i]>>]]

NothingCached == <<>>
SheetTickers ==
    { << <<"2", "3">> >>, << <<"2", "3">>, <<" ", "A">> >>, << <<" ">>, <<"A">> >> }

InitApp ==
    /\ session_state = [live_prices |-> EmptyDict]
    /\ cache = [load_data |-> NothingCached, fetch_current_prices |-> EmptyDict]
    /\ script = "load"
    /\ \E A \in SheetTickers :
        /\ gsheet = [sh |-> TRUE, ws |-> TRUE, ok |-> TRUE,
                     E |-> [i \in 1..Len(A) |-> Price(1000)], A |-> A]
        /\ download \in Downloads(query_tickers(A))
    /\ tickers = <<>>
    /\ fetched = NotFetched
    /\ df_A = EmptyDataFrame
    /\ written = NotWritten
    /\ NormIdle
    /\ LoadIdle
    /\ ReportIdle

\* lines 447-456: df_A = load_data(...), from the cache when it holds the
\* table, from the worksheet (or empty, when reading fails) when it does not
LoadTables ==
    /\ script = "load"
    /\ IF cache.load_data # NothingCached
       THEN /\ df_A' = cache.load_data[1]
            /\ UNCHANGED cache
       ELSE \E read \in BOOLEAN :
            LET df == IF read THEN SheetFrame(gsheet) ELSE EmptyDataFrame
            IN  /\ df_A' = df
                /\ cache' = [cache EXCEPT !.load_data = <<df>>]
    /\ tickers' = <<>>
    /\ fetched' = NotFetched
    /\ written' = NotWritten
    /\ script' = "sidebar"
    /\ UNCHANGED <<download, gsheet, session_state, exceptPrices>>

\* lines 477-478: the reload button was pressed
ReloadButton ==
    /\ script = "sidebar"
    /\ cache' = [cache EXCEPT !.load_data = NothingCached]
    /\ script' = "rerun_reload"
    /\ UNCHANGED <<pricesVars, session_state, exceptPrices>>

\* lines 479 and 493: st.rerun()
Rerun ==
    /\ script \in {"rerun_reload", "rerun_update"}
    /\ script' = "load"
    /\ UNCHANGED <<pricesVars, session_state, cache, exceptPrices>>

\* no button of the data-management block was pressed: the pass runs to its end
NoButton ==
    /\ script = "sidebar"
    /\ script' = "wait"
    /\ UNCHANGED <<pricesVars, session_state, cache, exceptPrices>>

\* lines 481-482: the update button was pressed
UpdateButton ==
    /\ script = "sidebar"
    /\ script' = IF ~empty(df_A) /\ Count(df_A.columns, Ticker) > 0
                 THEN "fetch" ELSE "wait"
    /\ UNCHANGED <<pricesVars, session_state, cache, exceptPrices>>

\* lines 483-485: updates = fetch_current_prices(tickers), a st.cache_data
\* function: the stored result when the store has the argument
UpdateFetch ==
    /\ script = "fetch"
    /\ LET t == unique_tickers(df_A)
       IN  /\ tickers' = t
           /\ IF t \in DOMAIN cache.fetch_current_prices
              THEN /\ fetched' = [done |-> TRUE, res |-> cache.fetch_current_prices[t]]
                   /\ UNCHANGED cache
              ELSE LET res == fetch_current_prices(t, download)
                   IN  /\ fetched' = [done |-> TRUE, res |-> res]
                       /\ cache' = [cache EXCEPT
                                     !.fetch_current_prices = (t :> res) @@ @]
    /\ script' = "store"
    /\ UNCHANGED <<download, df_A, gsheet, written, session_state, exceptPrices>>

\* line 486
UpdateStore ==
    /\ script = "store"
    /\ session_state' = [session_state EXCEPT !.live_prices = fetched.res]
    /\ script' = "if_updates"
    /\ UNCHANGED <<pricesVars, cache, exceptPrices>>

\* lines 487-488: success = write_prices_to_sheet(df_A, updates)
UpdateWrite ==
    /\ script = "if_updates"
    /\ DOMAIN fetched.res # {}
    /\ \E sh \in BOOLEAN, ws \in BOOLEAN, ok \in BOOLEAN :
        LET gs == [gsheet EXCEPT !.sh = sh, !.ws = ws, !.ok = ok]
            w  == write_prices_to_sheet(df_A, fetched.res, gs)
        IN  /\ gsheet' = [gs EXCEPT !.E = w.E]
            /\ written' = [done |-> TRUE, ret |-> w.ret, raised |-> w.raised,
                           update |-> w.update]
    /\ script' = "if_success"
    /\ UNCHANGED <<tickers, download, fetched, df_A, session_state, cache, exceptPrices>>

\* lines 494-495: nothing was fetched
UpdateWarning ==
    /\ script = "if_updates"
    /\ DOMAIN fetched.res = {}
    /\ script' = "wait"
    /\ UNCHANGED <<pricesVars, session_state, cache, exceptPrices>>

\* lines 489-492 clearing load_data's store whatever success is
UpdateClearAlways ==
    /\ script = "if_success"
    /\ cache' = [cache EXCEPT !.load_data = NothingCached]
    /\ script' = "rerun_update"
    /\ UNCHANGED <<pricesVars, session_state, exceptPrices>>

\* lines 489-492: load_data.clear() after a successful write
UpdateClear ==
    /\ script = "if_success"
    /\ written.ret
    /\ cache' = [cache EXCEPT !.load_data = NothingCached]
    /\ script' = "rerun_update"
    /\ UNCHANGED <<pricesVars, session_state, exceptPrices>>

\* line 489: the write failed
UpdateFailedWrite ==
    /\ script = "if_success"
    /\ ~written.ret
    /\ script' = "wait"
    /\ UNCHANGED <<pricesVars, session_state, cache, exceptPrices>>

\* the next interaction starts the next pass
NextPass ==
    /\ script = "wait"
    /\ script' = "load"
    /\ UNCHANGED <<pricesVars, session_state, cache, exceptPrices>>

\* between passes: ttl=3600 of load_data ran out
ExpireTables ==
    /\ script = "wait"
    /\ cache.load_data # NothingCached
    /\ cache' = [cache EXCEPT !.load_data = NothingCached]
    /\ UNCHANGED <<pricesVars, session_state, script, exceptPrices>>

\* between passes: ttl=60 of fetch_current_prices ran out
ExpirePrices ==
    /\ script = "wait"
    /\ DOMAIN cache.fetch_current_prices # {}
    /\ cache' = [cache EXCEPT !.fetch_current_prices = EmptyDict]
    /\ UNCHANGED <<pricesVars, session_state, script, exceptPrices>>

\* between passes: the price source has other prices
MarketMoves ==
    /\ script = "wait"
    /\ download' \in Downloads(query_tickers(gsheet.A)) \ {download}
    /\ UNCHANGED <<tickers, fetched, df_A, gsheet, written, appVars, exceptPrices>>

NextApp ==
    \/ LoadTables \/ ReloadButton \/ Rerun \/ NoButton
    \/ UpdateButton \/ UpdateFetch \/ UpdateStore \/ UpdateWrite \/ UpdateWarning
    \/ UpdateClear \/ UpdateFailedWrite
    \/ NextPass \/ ExpireTables \/ ExpirePrices \/ MarketMoves

SpecApp == InitApp /\ [][NextApp]_vars

(***************************************************************************)
(* Reading a formatted number back, for the statements below: the value    *)
(* of a decimal in units of 1/10000 and of a percent string in hundredths. *)
(***************************************************************************)
Small(v) == v.k = "fin" /\ Len(v.ip) <= 5 /\ Len(v.fp) <= 4

\* v in units of 1/10000, for Small(v)
E4(v) ==
    LET n == SeqToNat(v.ip \o SubSeq(v.fp \o <<0, 0, 0, 0>>, 1, 4))
    IN  IF v.neg THEN 0 - n ELSE n

\* a string of the form [-]digits.dd%
IsPctString(s) ==
    LET body == IF s # <<>> /\ Head(s) = "-" THEN Tail(s) ELSE s
        n    == Len(body)
    IN  /\ n >= 5
        /\ body[n] = "%"
        /\ body[n - 3] = "."
        /\ IsDigit(body[n - 1]) /\ IsDigit(body[n - 2])
        /\ AllDigits(SubSeq(body, 1, n - 4))
        /\ (n - 4 > 1 => body[1] # "0")

\* the number such a string shows, in hundredths
Centi(s) ==
    LET neg  == Head(s) = "-"
        body == IF neg THEN Tail(s) ELSE s
        n    == Len(body)
        m    == SeqToNat(ToDigits(SubSeq(body, 1, n - 4) \o SubSeq(body, n - 2, n - 1)))
    IN  IF neg THEN 0 - m ELSE m

Abs(x) == IF x < 0 THEN 0 - x ELSE x

(***************************************************************************)
(* C1: normalize_numeric (safe_float) is total over strings: for every     *)
(* string it returns a number and never raises, and a string that cannot   *)
(* be parsed after cleaning yields exactly 0.0.                            *)
(***************************************************************************)
SafeFloatTotal ==
    call = "safe_float" =>
        /\ ~result.raised
        /\ result.val.k \in {"fin", "inf", "nan"}
        /\ (float(Clean(value)).k = "err" => result.val = Zero)

\* a garbage cell went through safe_float and came out as 0.0
SafeFloatTotalWitness ==
    /\ call = "safe_float"
    /\ value = <<"(", "a", "%">>
    /\ result.val = Zero

(***************************************************************************)
(* C5: format_percent (fmt_pct) applies the 5.0 magnitude rule: v = 0      *)
(* gives "0.00%"; 0 < |v| <= 5.0 gives 100*v with two decimals and a %     *)
(* sign; |v| > 5.0 gives v with two decimals and a % sign; 5.0 renders     *)
(* "500.00%" and 5.01 renders "5.01%".                                     *)
(***************************************************************************)
FmtPctRule ==
    call = "fmt_pct" =>
        LET v == result.val
            out == result.out
        IN  /\ IsZero(v) => out = <<"0", ".", "0", "0", "%">>
            /\ Small(v) /\ ~IsZero(v) /\ Abs(E4(v)) <= 50000 =>
                    IsPctString(out) /\ Centi(out) = E4(v)
            /\ Small(v) /\ Abs(E4(v)) > 50000 =>
                    IsPctString(out) /\ Abs(100 * Centi(out) - E4(v)) <= 50
            /\ v.k = "fin" /\ ~Small(v) /\ Len(v.fp) <= 2 =>
                    out = (IF v.neg THEN <<"-">> ELSE <<>>)
                          \o [i \in 1..Len(v.ip) |-> DigChar(v.ip[i])]
                          \o <<".">>
                          \o [i \in 1..2 |-> DigChar((v.fp \o <<0, 0>>)[i])]
                          \o <<"%">>
            /\ value = <<"5", ".", "0">> => out = <<"5", "0", "0", ".", "0", "0", "%">>
            /\ value = <<"5", ".", "0", "1">> => out = <<"5", ".", "0", "1", "%">>

\* the boundary value 5.0 was formatted as a fraction
FmtPctRuleWitness ==
    /\ call = "fmt_pct"
    /\ value = <<"5", ".", "0">>
    /\ result.out = <<"5", "0", "0", ".", "0", "0", "%">>

\* -v, and equality of numbers (0.0 and -0.0 are equal)
Negated(v) == IF v.k = "nan" THEN v ELSE [v EXCEPT !.neg = ~v.neg]
SameNumber(a, b) == (IsZero(a) /\ IsZero(b)) \/ a = b

\* C14: normalize_numeric converts a value wrapped in parentheses to its
\* negation: for every cell "(" + x + ")" where x alone normalizes to n,
\* the result is -n; "(500)" gives -500.0.
ParenthesesNegate ==
    (call = "safe_float" /\ Len(value) >= 2
        /\ value[1] = "(" /\ value[Len(value)] = ")") =>
        /\ SameNumber(result.val,
                      Negated(safe_float(SubSeq(value, 2, Len(value) - 1))))
        /\ value = <<"(", "5", "0", "0", ")">> => result.val = Fin(TRUE, <<5, 0, 0>>, <<>>)

\* C15: every value normalize_numeric returns is a finite number, never NaN
\* and never plus or minus infinity.
NormalizedValueFinite ==
    call = "safe_float" => result.val.k = "fin"

(***************************************************************************)
(* Statements about load_data.                                             *)
(***************************************************************************)
\* load_data read the header row h (trimmed) and built its DataFrame from it
BuiltFromHeaders ==
    loaded.done /\ data # <<>> /\ Len(loaded.df.columns) = Len(data[1]) /\ data[1] # <<>>

TrimmedHeaders == [i \in 1..Len(data[1]) |-> strip(data[1][i])]

HasRepeat(names) == \E i, j \in 1..Len(names) : i < j /\ names[i] = names[j]

(***************************************************************************)
(* C6: the Table returned by load_data has pairwise distinct column names: *)
(* no two columns share a name after load-time deduplication.              *)
(***************************************************************************)
ColumnsDistinct ==
    loaded.done => ~HasRepeat(loaded.df.columns)

(***************************************************************************)
(* C7: when the raw header row contains a repeated name, an empty header   *)
(* is treated as "Unnamed", the first occurrence of a name keeps the name  *)
(* and its k-th repetition becomes name_k; ["Ticker", "Ticker", ""] loads  *)
(* as ["Ticker", "Ticker_1", "Unnamed"].                                   *)
(***************************************************************************)
Named(h) == IF h = <<>> THEN <<"Unnamed">> ELSE h

RenamingScheme ==
    BuiltFromHeaders /\ HasRepeat(TrimmedHeaders) =>
        /\ \A i \in 1..Len(TrimmedHeaders) :
              LET n == Named(TrimmedHeaders[i])
                  k == Cardinality({j \in 1..(i - 1) : Named(TrimmedHeaders[j]) = n})
              IN  loaded.df.columns[i] =
                      IF k = 0 THEN n ELSE n \o <<"_">> \o NatStr(k)
        /\ TrimmedHeaders = << <<"Ticker">>, <<"Ticker">>, <<>> >> =>
              loaded.df.columns =
                  << <<"Ticker">>, <<"Ticker", "_", "1">>, <<"Unnamed">> >>

\* the specification's example row was loaded
RenamingSchemeWitness ==
    /\ loaded.done
    /\ data # <<>>
    /\ data[1] = << <<"Ticker">>, <<"Ticker", " ">>, <<" ">> >>
    /\ loaded.df.columns = << <<"Ticker">>, <<"Ticker", "_", "1">>, <<"Unnamed">> >>

\* C20: load_data returns an empty Table, not an error, whenever the named
\* table does not exist, and also when the connection is unavailable or the
\* worksheet has no rows: no call of load_data ends by raising.
LoadReturnsEmptyNotError ==
    (loaded.done /\ loaded.how # "idle") =>
        /\ ~loaded.raised
        /\ loaded.how \in {"not_found", "no_connection", "no_rows", "gave_up"} =>
              /\ empty(loaded.df)
              /\ loaded.df = EmptyDataFrame

\* the worksheet was not found, on a later attempt than the first, and the
\* call returned the empty DataFrame
LoadReturnsEmptyNotErrorWitness ==
    /\ loaded.done
    /\ loaded.how = "not_found"
    /\ attempt > 0
    /\ ~loaded.raised
    /\ loaded.df = EmptyDataFrame

------------------------------------------------------------------------------
(***************************************************************************)
(* Statements about generate_daily_report.                                 *)
(***************************************************************************)
\* the sections in the order the function runs them
SectionOrder == <<"C", "H", "A", "F", "D", "E">>

\* the section has run: the function is past it
Past(sec) ==
    \/ pc = "done"
    \/ \E i, j \in 1..Len(SectionOrder) :
          SectionOrder[i] = sec /\ SectionOrder[j] = pc /\ i < j
    \/ pc = "raised" /\ sec \in {"C", "H"}

\* the texts of the lines a section appended, in order
RECURSIVE TextsOf(_, _)
TextsOf(ls, sec) ==
    IF ls = <<>> THEN <<>>
    ELSE (IF Head(ls).sec = sec THEN <<Head(ls).text>> ELSE <<>>) \o TextsOf(Tail(ls), sec)

Diagnostics ==
    { <<"ReadErrorC">>, <<"ParseErrorH">>, <<"ParseErrorF">>, <<"ParseErrorD">>,
      <<"ParseErrorE">> }

EmptyCashFlowPlaceholder ==
    (pc \in {"done", "raised"} /\ empty(tables.D)) =>
        /\ pc = "done"
        /\ Join(lines) # <<>>
        /\ \A sec \in Sections \ {"D"} : TextsOf(lines, sec) # <<>>
        /\ Len(TextsOf(lines, "D")) >= 2

\* the first non-zero value of a sequence of floats, 0.0 when there is none
RECURSIVE FirstNonZero(_)
FirstNonZero(vs) ==
    IF vs = <<>> THEN Zero
    ELSE IF ~IsZero(Head(vs)) THEN Head(vs)
    ELSE FirstNonZero(Tail(vs))

\* C4: for every Holdings row the resolved closing price is the first
\* non-zero value in the order manual close cell, alternate close cell, live
\* price of the row's ticker, transaction price cell.
PriceResolutionOrder ==
    Past("A") =>
        \A r \in 1..Len(locals.close_val) :
            locals.close_val[r] =
                FirstNonZero(<< safe_float(get(tables.A, r, Close, <<>>)),
                                safe_float(get(tables.A, r, LiveClose, <<>>)),
                                live_p(live_prices_dict,
                                       strip(get(tables.A, r, Ticker, <<>>))),
                                safe_float(get(tables.A, r, TradePrice, <<>>)) >>)

\* the rows the DailyJudgment section is to report: the rows of the most
\* recent date, the last row when no date parses or no column is a date
MostRecentRows(df) ==
    LET c    == IF find_col(df.columns, Date) = <<>> THEN 0
                ELSE IndexOf(df.columns, find_col(df.columns, Date))
        day(r) == IF c = 0 THEN 0 ELSE to_datetime(df.rows[r][c])
    IN  IF \A r \in 1..Len(df.rows) : day(r) = 0 THEN {Len(df.rows)}
        ELSE {r \in 1..Len(df.rows) : \A q \in 1..Len(df.rows) : day(q) <= day(r)}

\* C8: the DailyJudgment section reports the row with the most recent
\* date, and the last row in table order when the dates are unparseable or
\* there is no date column, whatever the order of the rows.
MostRecentJudgmentWins ==
    (Past("H") /\ ~empty(tables.H)) => locals.latest \in MostRecentRows(tables.H)

\* the lines of a window section that are rows: neither the header nor a
\* diagnostic
RECURSIVE RowTexts(_, _)
RowTexts(ts, sec) ==
    IF ts = <<>> THEN <<>>
    ELSE (IF Head(ts) \in {WindowHeader(sec), NoDateLine(sec), ParseErrorLine(sec)}
          THEN <<>> ELSE <<Head(ts)>>) \o RowTexts(Tail(ts), sec)

\* the day an emitted row starts with, 0 when it starts with no date
LineDay(t) ==
    IF Len(t) >= 3 /\ t[1] = "2024-01-" /\ IsDigit(t[3]) THEN DigVal(t[3]) ELSE 0

\* the table's rows of its three greatest distinct parseable dates are the
\* rows the section emitted, in non-decreasing date order
WindowAsClaimed(sec) ==
    LET df     == tables[sec]
        c      == IF find_col(df.columns, Date) = <<>> THEN 0
                  ELSE IndexOf(df.columns, find_col(df.columns, Date))
        day(r) == IF c = 0 THEN 0 ELSE to_datetime(df.rows[r][c])
        Days   == {day(r) : r \in 1..Len(df.rows)} \ {0}
        Recent == {d \in Days : Cardinality({e \in Days : e > d}) < 3}
        out    == RowTexts(TextsOf(lines, sec), sec)
    IN  /\ \A i \in 1..Len(out) : LineDay(out[i]) \in Recent
        /\ \A d \in Recent :
              Cardinality({i \in 1..Len(out) : LineDay(out[i]) = d})
                  = Cardinality({r \in 1..Len(df.rows) : day(r) = d})
        /\ \A i, j \in 1..Len(out) : i < j => LineDay(out[i]) <= LineDay(out[j])

\* C9: in each recent-3-days section (DailyNAV, CashFlow, RealizedPnL) the
\* emitted rows are exactly the rows whose date is one of the 3 greatest
\* distinct parseable dates of the table, in non-decreasing date order.
RecentThreeDatesWindow ==
    \A sec \in {"F", "D", "E"} : Past(sec) => WindowAsClaimed(sec)

\* the lines of the Overview section labelled with the exposure indicator
ExposureLines ==
    LET ts == TextsOf(lines, "C")
        Is(t) == Len(t) >= 4 /\ SubSeq(t, 1, 4) = ExposureE \o <<":">>
    IN  {i \in 1..Len(ts) : Is(ts[i])}

\* the one exposure line is the value under key, formatted
ExposureLineFrom(key) ==
    LET ts == TextsOf(lines, "C")
    IN  \A i \in ExposureLines : \E r \in 1..Len(tables.C.rows), tieUp \in BOOLEAN :
            /\ strip(tables.C.rows[r][1]) = key
            /\ ts[i] = ExposureE \o <<":">> \o val_str(key, tables.C.rows[r][2], tieUp)

\* C10: the Overview section holds at most one line labelled with the
\* exposure indicator: from the new key when the table has it, from the
\* legacy key (leverage beta) when the table has only that one.
ExposureLegacyFallback ==
    (Past("C") /\ ~empty(tables.C) /\ ~OverviewCaught(tables.C)) =>
        LET has(key) == \E r \in 1..Len(tables.C.rows) : strip(tables.C.rows[r][1]) = key
        IN  /\ Cardinality(ExposureLines) <= 1
            /\ has(ExposureE) =>
                  Cardinality(ExposureLines) = 1 /\ ExposureLineFrom(ExposureE)
            /\ (has(LeverageBeta) /\ ~has(ExposureE)) =>
                  Cardinality(ExposureLines) = 1 /\ ExposureLineFrom(LeverageBeta)

\* the items whose key is a row of the Overview table, in the list's order
PresentItems(df) ==
    LET Present(it) == \E r \in 1..Len(df.rows) : strip(df.rows[r][1]) = it.key
    IN  SelectSeq(items, Present)

\* the lines of the Overview section after its header
OverviewLines == Tail(TextsOf(lines, "C"))

\* C11: the Overview section emits exactly one label:value line for each key
\* of the fixed list that is a row of the Overview table, in the order of
\* the list whatever the order of the rows, and nothing else: no line and no
\* error text for an absent key.
OneLinePerPresentKey ==
    (Past("C") /\ ~empty(tables.C)) =>
        LET present == PresentItems(tables.C)
        IN  /\ Len(OverviewLines) = Len(present)
            /\ \A i \in 1..Len(present) :
                  /\ Len(OverviewLines[i]) > Len(present[i].label)
                  /\ SubSeq(OverviewLines[i], 1, Len(present[i].label) + 1)
                        = present[i].label \o <<":">>

\* the label:value lines ls are the lines of the items its, one each, in order
LabelLines(ls, its) ==
    /\ Len(ls) = Len(its)
    /\ \A i \in 1..Len(its) :
          /\ Len(ls[i]) > Len(its[i].label)
          /\ SubSeq(ls[i], 1, Len(its[i].label) + 1) = its[i].label \o <<":">>

\* how many of the present items get their line: all of them, or those
\* before the first currency-like or ratio-like key that sits in several
\* rows (formatting its values raises); none when the table has no value
\* column
LinesBeforeFailure(df) ==
    LET present == PresentItems(df)
        Several(it) == Cardinality({r \in 1..Len(df.rows) : strip(df.rows[r][1]) = it.key}) > 1
        bad == {i \in 1..Len(present) :
                    present[i].key \in PctKeys \cup IntKeys /\ Several(present[i])}
    IN  IF Len(df.columns) < 2 THEN 0
        ELSE IF bad = {} THEN Len(present)
        ELSE (CHOOSE i \in bad : \A j \in bad : i <= j) - 1

\* C11, as the code has it: the Overview section emits one label:value line
\* for each key of the fixed list that is a row of the table, in the order
\* of the list whatever the order of the rows, and nothing for an absent
\* key; when the table has no value column or a currency-like or ratio-like
\* key sits in several rows, the lines of the keys before that key are
\* followed by the section's one diagnostic line and the later keys get no
\* line.
OneLinePerPresentKeyUntilFailure ==
    (Past("C") /\ ~empty(tables.C)) =>
        LET present == PresentItems(tables.C)
            n       == LinesBeforeFailure(tables.C)
        IN  IF n = Len(present) /\ Len(tables.C.columns) >= 2
            THEN LabelLines(OverviewLines, present)
            ELSE /\ Len(OverviewLines) = n + 1
                 /\ LabelLines(SubSeq(OverviewLines, 1, n), SubSeq(present, 1, n))
                 /\ OverviewLines[n + 1] = <<"ReadErrorC">>

\* the table lists Cash before StockValue and the section emitted the line
\* of StockValue before the line of Cash
OneLinePerPresentKeyWitness ==
    /\ Past("C")
    /\ Len(tables.C.rows) = 2
    /\ tables.C.rows[1][1] = Cash
    /\ tables.C.rows[2][1] = StockValue
    /\ Len(OverviewLines) = 2
    /\ SubSeq(OverviewLines[1], 1, 2) = StockValue \o <<":">>
    /\ SubSeq(OverviewLines[2], 1, 2) = Cash \o <<":">>

\* the keys the specification calls currency-like and ratio-like
CurrencyKeys == {StockValue, Cash, PledgeLoan, TotalAssets, RealNAV, Goal, GoalGap}
RatioKeys    == {PledgeRate, ExposureE, LeverageBeta, Progress, DensityLDR}

\* the value a line shows is the cell, rendered as the key's kind asks
RenderedAsItsKind(key, cell, shown) ==
    IF key \in CurrencyKeys THEN shown = fmt_int(cell)
    ELSE IF key \in RatioKeys
        THEN IF \E k \in 1..Len(cell) : cell[k] = "%"
             THEN shown = cell
             ELSE \E tieUp \in BOOLEAN : shown = fmt_pct(cell, tieUp)
    ELSE shown = cell

\* C12: in the Overview section every currency-like key is rendered with
\* format_integer and every ratio-like key with format_percent, except that
\* a ratio value holding a literal % is emitted verbatim; the rows
\* StockValue = "1,000,000", Cash = "(50,000)", LeverageBeta = "1.05" give
\* the lines "StockValue:1,000,000", "Cash:-50,000", "Exposure E:105.00%".
OverviewFormatting ==
    (Past("C") /\ ~empty(tables.C)) =>
        LET df      == tables.C
            present == PresentItems(df)
            Rows(it) == {r \in 1..Len(df.rows) : strip(df.rows[r][1]) = it.key}
        IN  /\ \A i \in 1..LinesBeforeFailure(df) :
                  Cardinality(Rows(present[i])) = 1 =>
                      RenderedAsItsKind(
                          present[i].key,
                          df.rows[CHOOSE r \in Rows(present[i]) : TRUE][2],
                          SubSeq(OverviewLines[i], Len(present[i].label) + 2,
                                 Len(OverviewLines[i])))
            /\ df = OverviewSample =>
                  OverviewLines =
                      << StockValue \o <<":", "1", ",", "0", "0", "0", ",", "0", "0", "0">>,
                         Cash \o <<":", "-", "5", "0", ",", "0", "0", "0">>,
                         ExposureE \o <<":", "1", "0", "5", ".", "0", "0", "%">> >>

\* a ratio value with a literal % went out unchanged next to a currency
\* value in parentheses that went out as a negative integer
OverviewFormattingWitness ==
    /\ Past("C")
    /\ Len(tables.C.rows) = 2
    /\ tables.C.rows[1] = <<ExposureE \o <<" ">>, <<"1", "0", "%">> >>
    /\ tables.C.rows[2] = <<Cash, <<"(", "5", "0", ",", "0", "0", "0", ")">> >>
    /\ OverviewLines = << Cash \o <<":", "-", "5", "0", ",", "0", "0", "0">>,
                          ExposureE \o <<":", "1", "0", "%">> >>

EndsWith(t, suffix) ==
    Len(t) >= Len(suffix) /\ SubSeq(t, Len(t) - Len(suffix) + 1, Len(t)) = suffix

\* C13: in the recent-3-days NAV section the exposure ratio of a row is the
\* prefix letter followed by exactly what format_percent returns for the
\* row's cell, whatever the cell (negative values and zero included).
ExposureAsFormatPercent ==
    Past("F") =>
        LET df  == tables.F
            out == RowTexts(TextsOf(lines, "F"), "F")
        IN  \A i \in 1..Len(out) : \E r \in 1..Len(df.rows), tieUp \in BOOLEAN :
                EndsWith(out[i],
                         <<" ", "E">>
                         \o fmt_pct(get(df, r, ExposureE, get(df, r, LeverageBeta, <<"0">>)),
                                    tieUp))

\* the six fields of the DailyJudgment section in the order of their lines,
\* each with the keyword its source column carries
JudgmentFields ==
    << <<"LDR">>, <<"Risk">>, <<"Pledge">>, <<"Unwind">>, <<"Flywheel">>, <<"Command">> >>

\* C16: in the DailyJudgment section each of the six fields (LDR, risk
\* level, pledge ratio, recommended unwind percentage, flywheel stage,
\* command) whose source column is missing from the table is emitted with
\* the value N/A; its line is neither skipped nor replaced by an error.
MissingFieldsNotAvailable ==
    (Past("H") /\ ~empty(tables.H)) =>
        LET ts == Tail(TextsOf(lines, "H"))
        IN  \A k \in 1..Len(JudgmentFields) :
                find_col(tables.H.columns, JudgmentFields[k]) = <<>> =>
                    /\ Len(ts) = Len(JudgmentFields)
                    /\ EndsWith(ts[k], <<":">> \o NA)

\* the text holds a part that starts with "[" "Debug" and ends at a later "]"
HasDebugPart(t) ==
    \E i, j \in 1..Len(t) : i + 1 < j /\ t[i] = "[" /\ t[i + 1] = "Debug" /\ t[j] = "]"

\* C17: the command line of the DailyJudgment section has every bracketed
\* Debug part stripped: whatever the command cell, the emitted command holds
\* no part that starts with the opening bracket and Debug and ends at a
\* later closing bracket.
NoDebugPartInCommand ==
    Past("H") =>
        LET ts == TextsOf(lines, "H")
        IN  \A i \in 1..Len(ts) :
                (Len(ts[i]) >= 2 /\ SubSeq(ts[i], 1, 2) = <<"Command", ":">>) =>
                    ~HasDebugPart(ts[i])

Holds(t, c) == \E i \in 1..Len(t) : t[i] = c

\* C18: in each recent-3-days CashFlow line the quantity is omitted exactly
\* when the normalized quantity is zero, the price exactly when the
\* normalized price is zero and the note exactly when the note is empty
\* after trimming; a non-zero quantity or price of either sign is shown.
\* In a line of the one-row tables only the quantity carries "shares", only
\* the price a decimal point and only the note "note:".
CashFlowFieldsOmittedWhenZero ==
    (Past("D") /\ \E q \in QuantityCells, p \in PriceCells, n \in NoteCells :
                     tables.D = CashFlowTable(q, p, n)) =>
        LET out == RowTexts(TextsOf(lines, "D"), "D")
            row == tables.D.rows[1]
        IN  /\ Len(out) = 1
            /\ Holds(out[1], "shares") <=> ~IsZero(safe_float(row[5]))
            /\ Holds(out[1], ".") <=> ~IsZero(safe_float(row[6]))
            /\ Holds(out[1], "note:") <=> strip(row[7]) # <<>>

\* C19: fuzzy_column (find_col) returns the first column name, in column
\* order, that contains the keyword as a substring, and None (the empty
\* name here) when no column contains it; ["TradeDate", "Note"] with "Date"
\* gives "TradeDate" and ["A", "B"] with "Date" gives None.
FuzzyColumnFirstMatch ==
    call = "find_col" =>
        LET cs == value.columns
            k  == value.keyword
        IN  /\ result.out # <<>> =>
                  \E i \in 1..Len(cs) :
                      /\ cs[i] = result.out
                      /\ Contains(cs[i], k)
                      /\ \A j \in 1..(i - 1) : ~Contains(cs[j], k)
            /\ result.out = <<>> => \A i \in 1..Len(cs) : ~Contains(cs[i], k)
            /\ (cs = << <<"Trade", "Date">>, <<"Note">> >> /\ k = <<"Date">>) =>
                  result.out = <<"Trade", "Date">>
            /\ (cs = << <<"A">>, <<"B">> >> /\ k = <<"Date">>) => result.out = <<>>

\* two columns contain the keyword and the call returned the first of them
FuzzyColumnFirstMatchWitness ==
    /\ call = "find_col"
    /\ value.columns = << <<"Note">>, <<"Trade", "Date">>, <<"Date">> >>
    /\ value.keyword = <<"Date">>
    /\ result.out = <<"Trade", "Date">>

(***************************************************************************)
(* Statements about fetch_current_prices and write_prices_to_sheet.        *)
(***************************************************************************)
\* the market-data source has a price for the ticker raw_t is queried as
SourceHasPrice(raw_t) ==
    /\ download.kind = "ok"
    /\ y_t(raw_t) \in DOMAIN download.last_row
    /\ download.last_row[y_t(raw_t)].k = "fin"

\* C21: in the mapping fetch_current_prices returns, a ticker the
\* market-data source has no price for is absent (never present with a zero
\* or not-a-number value), for a request of one ticker as for several.
NoPriceMeansAbsent ==
    fetched.done =>
        \A t \in DOMAIN fetched.res :
            SourceHasPrice(t) /\ fetched.res[t].k = "fin"

UpdateFailed    == written.update # NoUpdate /\ ~written.update[1].ok
UpdateCompleted == written.update # NoUpdate /\ written.update[1].ok

\* C22 as stated: write_prices_to_sheet never raises; it returns false when
\* the connection is unavailable, the worksheet is missing or the cell update
\* fails, and true only after the update call completed without error.
WriteTrueOnlyAfterUpdate ==
    written.done =>
        /\ ~written.raised
        /\ (~gsheet.sh \/ ~gsheet.ws \/ UpdateFailed) => ~written.ret
        /\ written.ret => UpdateCompleted

\* C22: write_prices_to_sheet never raises; it returns false when the
\* connection is unavailable, the worksheet is missing or the cell update
\* fails; it returns true only after the update call completed without
\* error or, for a Holdings table without rows, without any update call.
WriteTrueOnlyAfterUpdateOrNoRows ==
    written.done =>
        /\ ~written.raised
        /\ (~gsheet.sh \/ ~gsheet.ws \/ UpdateFailed) => ~written.ret
        /\ written.ret =>
              IF df_A.rows = <<>> THEN written.update = NoUpdate ELSE UpdateCompleted
        /\ (written.ret <=> gsheet.sh /\ gsheet.ws /\ ~UpdateFailed)

WriteTrueOnlyAfterUpdateWitness ==
    /\ written.done /\ written.ret /\ UpdateCompleted
    /\ written.update[1].vals # <<>>

\* the cell the statement gives row r of the Holdings table
ClaimedCell(r) ==
    LET t == strip(get(df_A, r, Ticker, <<>>))
    IN  IF t \in DOMAIN fetched.res /\ fetched.res[t] # Price(0)
        THEN fetched.res[t]
        ELSE Blank

\* C27: write_prices_to_sheet writes exactly one cell per Holdings row, to
\* the range E2..E(n+1) in row order: the cell of row i receives the fetched
\* price of that row's trimmed ticker when the update mapping has a non-zero
\* price for it, and an empty string otherwise; a row without a fetched
\* price is overwritten with empty, not left unchanged.
OneCellPerHoldingsRow ==
    LET n == Len(df_A.rows)
    IN  written.done =>
          /\ (gsheet.sh /\ gsheet.ws /\ n > 0) => written.update # NoUpdate
          /\ written.update # NoUpdate =>
                /\ Len(written.update) = 1
                /\ written.update[1].first = 2 /\ written.update[1].last = n + 1
                /\ Len(written.update[1].vals) = n
                /\ \A r \in 1..n : written.update[1].vals[r] = ClaimedCell(r)
          /\ UpdateCompleted =>
                /\ \A r \in 1..n : gsheet.E[r] = ClaimedCell(r)
                /\ \A r \in (n + 1)..Len(ColumnE) : gsheet.E[r] = ColumnE[r]
          /\ ~UpdateCompleted => gsheet.E = ColumnE

OneCellPerHoldingsRowWitness ==
    /\ written.done /\ UpdateCompleted
    /\ Len(df_A.rows) = 2
    /\ gsheet.E[1] = Price(12340)
    /\ gsheet.E[2] = Blank

(***************************************************************************)
(* Statements about the main script of app.py.                             *)
(***************************************************************************)
\* C23: the reload operation invalidates both process-local caches: after
\* a reload the next pass re-fetches the tables, and no live price fetched
\* before the reload is still held, neither in the store of
\* fetch_current_prices nor in the session's live-price mapping.
ReloadInvalidatesBothCaches ==
    script = "rerun_reload" =>
        /\ cache.load_data = NothingCached
        /\ \A t \in DOMAIN cache.fetch_current_prices :
              DOMAIN cache.fetch_current_prices[t] = {}
        /\ DOMAIN session_state.live_prices = {}

UpdateSteps == {"fetch", "store", "if_updates", "if_success"}

\* C28: in the update-prices action the session's live-price mapping is
\* replaced by the fetch result first; the write-back is invoked only when
\* the fetch result is non-empty; the table cache is cleared only after the
\* write-back returned true, so a failed fetch or a failed write leaves the
\* table cache as it was.
UpdateStepsOrdered ==
    [][ /\ (session_state' # session_state) =>
              /\ fetched.done /\ ~written.done
              /\ session_state'.live_prices = fetched.res
        /\ (written'.done /\ ~written.done) =>
              /\ session_state.live_prices = fetched.res
              /\ DOMAIN fetched.res # {}
        /\ (script \in UpdateSteps /\ cache'.load_data # cache.load_data) =>
              /\ written.done /\ written.ret
              /\ cache'.load_data = NothingCached
        /\ (script \in UpdateSteps /\ script' = "wait") =>
              /\ ~(written.done /\ written.ret)
              /\ cache'.load_data = cache.load_data
      ]_vars

UpdateStepsOrderedWitness ==
    /\ script = "rerun_update"
    /\ written.done /\ written.ret
    /\ session_state.live_prices = fetched.res
    /\ cache.load_data = NothingCached

(***************************************************************************)
(* Statements about generate_daily_report as a whole.                      *)
(***************************************************************************)
\* C24: generate_daily_report never mutates its inputs: each of the six
\* tables passed in has the same columns, the same rows in the same order
\* and the same cell values after every step of the call as before it, and
\* the live-price mapping is unchanged.
InputsNotMutated ==
    [][tables' = tables /\ live_prices_dict' = live_prices_dict]_vars

InputsNotMutatedWitness ==
    /\ pc = "done"
    /\ set_index(tables.C) # tables.C
    /\ with_dt(tables.F) # tables.F
    /\ with_dt(tables.D) # tables.D
    /\ with_dt(tables.E) # tables.E
    /\ ~empty(tables.A) /\ ~empty(tables.H)

DateHeader == <<"[Date]", " ", "today", "\n">>
HeaderLines ==
    << <<"[C]">>, <<"\n", "[H_DailyJudgment]">>, <<"\n", "[A]">>,
       WindowHeader("F"), WindowHeader("D"), WindowHeader("E") >>

\* C26: whenever generate_daily_report returns, its output starts with the
\* date header line and then contains the six section header lines, each
\* exactly once and in the order C, H, A, F, D, E, whichever tables are
\* empty, lack a date column or fail to parse.
HeadersOnceInOrder ==
    pc = "done" =>
        /\ lines # <<>>
        /\ lines[1].text = DateHeader
        /\ SelectSeq([i \in 1..(Len(lines) - 1) |-> lines[i + 1].text],
                     LAMBDA t : t \in Range(HeaderLines) \cup {DateHeader})
             = HeaderLines

HeadersOnceInOrderWitness ==
    /\ pc = "done"
    /\ \/ "F" \in locals.caught
       \/ empty(tables.D)
       \/ ~empty(tables.E) /\ find_col(tables.E.columns, Date) = <<>>

(***************************************************************************)
(* Statements about load_data as a whole.                                  *)
(***************************************************************************)
ReturnedInsideLoop == {"no_connection", "not_found", "no_rows", "read"}

\* C25: load_data always terminates; it makes at most 3 fetch attempts for
\* one call; a further attempt follows only an attempt that raised an
\* unexpected error, never a missing worksheet, an unavailable connection or
\* an empty sheet (these return at once); once all 3 attempts have failed it
\* returns an empty table.
LoadTerminatesWithinRetries ==
    /\ <>loaded.done
    /\ [](attempt <= max_retries)
    /\ [](loaded.done =>
            /\ ~loaded.raised
            /\ loaded.how \in ReturnedInsideLoop => attempt < max_retries
            /\ attempt = max_retries =>
                  loaded.how = "gave_up" /\ loaded.df = EmptyDataFrame)
    /\ [](~loaded.done /\ attempt = max_retries => <>(loaded.how = "gave_up"))
    /\ [][ /\ ~loaded.done
           /\ attempt' # attempt => attempt' = attempt + 1 /\ loaded' = loaded
           /\ loaded'.done /\ loaded'.how \in ReturnedInsideLoop =>
                 attempt' = attempt ]_vars

LoadTerminatesWithinRetriesWitness ==
    /\ loaded.done
    /\ attempt = max_retries
    /\ loaded.how = "gave_up"
    /\ loaded.df = EmptyDataFrame

\* C30: when the trimmed raw header row has no repeated name, load_data
\* leaves the column names exactly equal to the trimmed headers: no suffix
\* is added and a single empty header stays the empty string instead of
\* becoming "Unnamed".
NoRepeatKeepsHeaders ==
    (loaded.done /\ loaded.how = "read" /\ ~HasRepeat(TrimmedHeaders)) =>
        /\ loaded.df.columns = TrimmedHeaders
        /\ \A i \in 1..Len(data[1]) :
              strip(data[1][i]) = <<>> => loaded.df.columns[i] = <<>>

NoRepeatKeepsHeadersWitness ==
    /\ loaded.done /\ loaded.how = "read"
    /\ data[1] = << <<"Ticker", " ">>, <<" ">>, <<"Unnamed">> >>
    /\ loaded.df.columns = << <<"Ticker">>, <<>>, <<"Unnamed">> >>

(***************************************************************************)
(* Statements about fmt_pct applied twice.                                 *)
(***************************************************************************)
\* the string shows a magnitude above 5.00, or is one of "inf%", "-inf%"
\* and "nan%"
ShowsAboveFive(s) ==
    LET body == IF s # <<>> /\ Head(s) = "-" THEN Tail(s) ELSE s
        n    == Len(body)
    IN  IF ~IsPctString(s) THEN TRUE
        ELSE \/ n - 4 > 1
             \/ DigVal(body[1]) > 5
             \/ DigVal(body[1]) = 5 /\ SubSeq(body, n - 2, n - 1) # <<"0", "0">>

\* C29 as stated: fmt_pct is idempotent on its own output: for every
\* RawCell x, fmt_pct(fmt_pct(x)) equals fmt_pct(x).
FormatPercentIdempotent ==
    call = "fmt_pct_again" => result.out = value

\* C29: fmt_pct(fmt_pct(x)) equals fmt_pct(x) exactly when fmt_pct(x) is
\* "0.00%" or shows a magnitude above 5; an output of magnitude up to 5.00
\* other than "0.00%" is read as a fraction by the second call, which shows
\* a different string.
FormatPercentIdempotentAboveFive ==
    call = "fmt_pct_again" =>
        (result.out = value <=>
            \/ value = <<"0", ".", "0", "0", "%">>
            \/ ShowsAboveFive(value))

FormatPercentIdempotentWitness ==
    /\ call = "fmt_pct_again"
    /\ value = <<"1", "5", ".", "0", "0", "%">>
    /\ result.out = value

====
